---- MODULE Spec2Model ----
(***************************************************************************)
(* A model of rio's Screen (src/rio/src/screen/mod.rs): the terminal       *)
(* session controller that resolves key bindings, encodes mouse reports,   *)
(* drives the selection and multiplexes the Contexts of a window.          *)
(*                                                                         *)
(* The fields of `struct Screen` are the variables.  Every method of       *)
(* `impl Screen` is an operator from a Screen record (self) to the Screen  *)
(* record it leaves behind, so that a handler that calls other methods in  *)
(* sequence is the composition of their operators; the actions apply one   *)
(* handler to the variables.  Bytes are the integers 0..255, a payload is  *)
(* a sequence of bytes, an Option is None or Some(v).                      *)
(***************************************************************************)
EXTENDS Integers, Sequences, FiniteSets, TLC

VARIABLES clipboard, modifiers, ignore_chars, mouse, ime, state, sugarloaf,
          context_manager, last

vars == <<clipboard, modifiers, ignore_chars, mouse, ime, state, sugarloaf,
          context_manager, last>>

(***************************************************************************)
(* Bounds of the model.                                                    *)
(***************************************************************************)
\* Messages the Messenger channels may hold, unread by the pseudo-terminal
\* writer, when a handler starts.
MaxPending == 0
\* Contexts (tabs) of the window.
MaxContexts == 2
\* Wheel events in a row.
MaxWheelEvents == 4

(***************************************************************************)
(* Values.                                                                 *)
(***************************************************************************)
None == [some |-> FALSE]
Some(v) == [some |-> TRUE, v |-> v]

Min(a, b) == IF a <= b THEN a ELSE b
Max(a, b) == IF a >= b THEN a ELSE b

\* usize::saturating_sub
saturating_sub(a, b) == IF a >= b THEN a - b ELSE 0

\* `x as u8`: the low eight bits
as_u8(x) == x % 256

ESC == 27

\* Display of an unsigned integer, as format!("{}") writes it: ASCII digits.
RECURSIVE Dec(_)
Dec(n) == IF n < 10 THEN <<48 + n>> ELSE Dec(n \div 10) \o <<48 + (n % 10)>>

\* Display of a signed integer (Line wraps an i32).
DecSigned(n) == IF n < 0 THEN <<45>> \o Dec(0 - n) ELSE Dec(n)

Pos(row, col) == [row |-> row, col |-> col]

(***************************************************************************)
(* Screen as a record, and the Context the ContextManager calls current.   *)
(***************************************************************************)
Self ==
    [clipboard |-> clipboard, modifiers |-> modifiers,
     ignore_chars |-> ignore_chars, mouse |-> mouse, ime |-> ime,
     state |-> state, sugarloaf |-> sugarloaf,
     context_manager |-> context_manager]

Store(s) ==
    /\ clipboard' = s.clipboard
    /\ modifiers' = s.modifiers
    /\ ignore_chars' = s.ignore_chars
    /\ mouse' = s.mouse
    /\ ime' = s.ime
    /\ state' = s.state
    /\ sugarloaf' = s.sugarloaf
    /\ context_manager' = s.context_manager

\* ContextManager::current(): the index is 0-based as in the code.
current(s) == s.context_manager.contexts[s.context_manager.current_index + 1]

\* ContextManager::current_mut() followed by a write of one field.
with_current(s, ctx) ==
    [s EXCEPT !.context_manager.contexts[s.context_manager.current_index + 1] = ctx]

\* Messenger::send_bytes on the current Context: the payload joins the
\* channel to the pseudo-terminal writer, in call order.
send_bytes(s, bytes) ==
    with_current(s, [current(s) EXCEPT
        !.messenger = Append(@, [t |-> "bytes", bytes |-> bytes])])

get_mode(s) == current(s).mode

display_offset(s) == current(s).display_offset

(***************************************************************************)
(* Mouse reporting: mouse_position, sgr_mouse_report, normal_mouse_report  *)
(* and mouse_report.                                                       *)
(***************************************************************************)
\* Legacy coordinate caps of normal_mouse_report.
LegacyMaxPoint == 223
Utf8MaxPoint == 2015
\* First coordinate that takes the two-byte form under UTF8_MOUSE.
Utf8TwoByteFrom == 95
\* Button sentinel of a legacy release.
ReleaseButton == 3

\* The layout's f32 fields enter mouse_position through `as usize`; the model
\* holds the truncated values.
mouse_position(s, offset) ==
    LET layout == s.sugarloaf.layout
        text_scale == layout.style.text_scale
        col_fac == text_scale \div 2
        col0 == saturating_sub(s.mouse.x, layout.padding.x) \div col_fac
        col == Min(col0, layout.columns)
        line0 == saturating_sub(s.mouse.y,
                     layout.padding.y * layout.scale_factor) \div text_scale
        line == Min(line0, layout.lines - 1)
    IN  Pos(line - offset, col)

\* Mutant: the coordinates are written zero-based.
sgr_mouse_report_zero_based(s, pos, button, st) ==
    LET c == IF st = "Pressed" THEN 77 ELSE 109
        msg == <<ESC, 91, 60>> \o Dec(button) \o <<59>> \o Dec(pos.col)
               \o <<59>> \o DecSigned(pos.row) \o <<c>>
    IN  send_bytes(s, msg)

sgr_mouse_report(s, pos, button, st) ==
    LET c == IF st = "Pressed" THEN 77 ELSE 109
        msg == <<ESC, 91, 60>> \o Dec(button) \o <<59>> \o Dec(pos.col + 1)
               \o <<59>> \o DecSigned(pos.row + 1) \o <<c>>
    IN  send_bytes(s, msg)

\* Mutant: the two-byte form leaves out the offset of 33.
mouse_pos_encode_no_offset(pos) ==
    LET first == 192 + (pos \div 64)
        second == 128 + (pos % 64)
    IN  <<as_u8(first), as_u8(second)>>

mouse_pos_encode(pos) ==
    LET p == 32 + 1 + pos
        first == 192 + (p \div 64)
        second == 128 + (p % 64)
    IN  <<as_u8(first), as_u8(second)>>

\* Mutant: the cap of UTF-8 mouse mode is used in both modes.
normal_mouse_report_one_cap(s, position, button) ==
    LET row == position.row
        col == position.col
        utf8 == "UTF8_MOUSE" \in get_mode(s)
        head == <<ESC, 91, 77, as_u8(32 + button)>>
        colb == IF utf8 /\ col >= Utf8TwoByteFrom
                THEN mouse_pos_encode(col)
                ELSE <<as_u8(32 + 1 + as_u8(col))>>
        rowb == IF utf8 /\ row >= Utf8TwoByteFrom
                THEN mouse_pos_encode(row)
                ELSE <<as_u8(32 + 1 + as_u8(row))>>
    IN  IF row >= Utf8MaxPoint \/ col >= Utf8MaxPoint
        THEN s
        ELSE send_bytes(s, head \o colb \o rowb)

\* Mutant: the cap itself is let through.
normal_mouse_report_cap_inclusive(s, position, button) ==
    LET row == position.row
        col == position.col
        utf8 == "UTF8_MOUSE" \in get_mode(s)
        max_point == IF utf8 THEN Utf8MaxPoint ELSE LegacyMaxPoint
        head == <<ESC, 91, 77, as_u8(32 + button)>>
        colb == IF utf8 /\ col >= Utf8TwoByteFrom
                THEN mouse_pos_encode(col)
                ELSE <<as_u8(32 + 1 + as_u8(col))>>
        rowb == IF utf8 /\ row >= Utf8TwoByteFrom
                THEN mouse_pos_encode(row)
                ELSE <<as_u8(32 + 1 + as_u8(row))>>
    IN  IF row > max_point \/ col > max_point
        THEN s
        ELSE send_bytes(s, head \o colb \o rowb)

normal_mouse_report(s, position, button) ==
    LET row == position.row
        col == position.col
        utf8 == "UTF8_MOUSE" \in get_mode(s)
        max_point == IF utf8 THEN Utf8MaxPoint ELSE LegacyMaxPoint
        head == <<ESC, 91, 77, as_u8(32 + button)>>
        colb == IF utf8 /\ col >= Utf8TwoByteFrom
                THEN mouse_pos_encode(col)
                ELSE <<as_u8(32 + 1 + as_u8(col))>>
        rowb == IF utf8 /\ row >= Utf8TwoByteFrom
                THEN mouse_pos_encode(row)
                ELSE <<as_u8(32 + 1 + as_u8(row))>>
    IN  IF row >= max_point \/ col >= max_point
        THEN s
        ELSE send_bytes(s, head \o colb \o rowb)

\* Mutant: the bits of shift and alt are exchanged.
mouse_mods_swapped(s) ==
    (IF "shift" \in s.modifiers THEN 8 ELSE 0)
    + (IF "alt" \in s.modifiers THEN 4 ELSE 0)
    + (IF "ctrl" \in s.modifiers THEN 16 ELSE 0)

\* The modifier bits of the report code.
mouse_mods(s) ==
    (IF "shift" \in s.modifiers THEN 4 ELSE 0)
    + (IF "alt" \in s.modifiers THEN 8 ELSE 0)
    + (IF "ctrl" \in s.modifiers THEN 16 ELSE 0)

\* Mutant: a position in the scrollback is reported like any other.
mouse_report_no_row_check(s, button, st) ==
    LET offset == current(s).display_offset
        mode == current(s).mode
        pos == mouse_position(s, offset)
        mods == mouse_mods(s)
    IN  IF "SGR_MOUSE" \in mode
        THEN sgr_mouse_report(s, pos, as_u8(button + mods), st)
        ELSE IF st = "Released"
        THEN normal_mouse_report(s, pos, as_u8(ReleaseButton + mods))
        ELSE normal_mouse_report(s, pos, as_u8(button + mods))

mouse_report(s, button, st) ==
    LET offset == current(s).display_offset
        mode == current(s).mode
        pos == mouse_position(s, offset)
        mods == mouse_mods(s)
    IN  IF pos.row < 0
        THEN s
        ELSE IF "SGR_MOUSE" \in mode
        THEN sgr_mouse_report(s, pos, as_u8(button + mods), st)
        ELSE IF st = "Released"
        THEN normal_mouse_report(s, pos, as_u8(ReleaseButton + mods))
        ELSE normal_mouse_report(s, pos, as_u8(button + mods))

\* set_modifiers
set_modifiers(s, m) == [s EXCEPT !.modifiers = m]

(***************************************************************************)
(* Wheel scroll.  Pixel deltas are whole numbers of pixels.                *)
(***************************************************************************)
Abs(a) == IF a < 0 THEN 0 - a ELSE a

\* f64 division followed by `as i32` / `as usize`: the quotient truncated
\* towards zero.
TruncDiv(a, b) == IF a >= 0 THEN a \div b ELSE 0 - ((0 - a) \div b)

\* f64 `%`: the remainder takes the sign of the dividend.
Rem(a, b) == a - b * TruncDiv(a, b)

\* Lines of scrollback the grid holds.
history_size(ctx) == 3

\* Crosswords::scroll_display(Scroll::Delta(lines)): the display offset moves
\* by lines and stays within the scrollback.
scroll_display(ctx, lines) ==
    [ctx EXCEPT !.display_offset = Max(0, Min(@ + lines, history_size(ctx)))]

RECURSIVE arrow_keys(_, _)
arrow_keys(n, cmd) ==
    IF n = 0 THEN <<>> ELSE <<ESC, 79, cmd>> \o arrow_keys(n - 1, cmd)

\* scroll
scroll(s, new_scroll_x_px, new_scroll_y_px) ==
    LET layout == s.sugarloaf.layout
        width == layout.width
        height == layout.height
        mode == get_mode(s)
        acc == s.mouse.accumulated_scroll
        reduce(r) ==
            [r EXCEPT !.mouse.accumulated_scroll =
                [x |-> Rem(@.x, width), y |-> Rem(@.y, height)]]
    IN  IF {"ALT_SCREEN", "ALTERNATE_SCROLL"} \subseteq mode
           /\ "shift" \notin s.modifiers
        THEN LET x == acc.x + new_scroll_x_px
                 y == acc.y + new_scroll_y_px
                 line_cmd == IF new_scroll_y_px > 0 THEN 65 ELSE 66
                 column_cmd == IF new_scroll_x_px > 0 THEN 68 ELSE 67
                 lines == Abs(TruncDiv(y, layout.font_size * layout.scale_factor))
                 columns == Abs(TruncDiv(x, width))
                 content == arrow_keys(lines, line_cmd)
                                \o arrow_keys(columns, column_cmd)
                 s1 == [s EXCEPT !.mouse.accumulated_scroll = [x |-> x, y |-> y]]
             IN  reduce(IF content # <<>> THEN send_bytes(s1, content) ELSE s1)
        ELSE LET y == acc.y + new_scroll_y_px * s.mouse.multiplier
                 lines == TruncDiv(y, layout.font_size)
                 s1 == [s EXCEPT !.mouse.accumulated_scroll.y = y]
             IN  reduce(IF lines # 0
                        THEN with_current(s1, scroll_display(current(s1), lines))
                        ELSE s1)

\* reset_mouse
reset_mouse(s) ==
    [s EXCEPT !.mouse.accumulated_scroll = [x |-> 0, y |-> 0]]

(***************************************************************************)
(* Text: strings are sequences of bytes.                                   *)
(***************************************************************************)
\* str::replace("\r\n", "\r").replace('\n', "\r")
RECURSIVE replace_crlf(_)
replace_crlf(text) ==
    IF text = <<>> THEN <<>>
    ELSE IF Len(text) >= 2 /\ text[1] = 13 /\ text[2] = 10
    THEN <<13>> \o replace_crlf(SubSeq(text, 3, Len(text)))
    ELSE <<text[1]>> \o replace_crlf(Tail(text))

replace_lf(text) == [i \in 1..Len(text) |-> IF text[i] = 10 THEN 13 ELSE text[i]]

normalize_newlines(text) == replace_lf(replace_crlf(text))

\* str::replace(['\x1b', '\x03'], "")
IsPasteSafe(b) == b # 27 /\ b # 3
filter_paste(text) == SelectSeq(text, IsPasteSafe)

\* char::encode_utf8
encode_utf8(ch) ==
    IF ch < 128 THEN <<ch>>
    ELSE IF ch < 2048 THEN <<192 + (ch \div 64), 128 + (ch % 64)>>
    ELSE IF ch < 65536
    THEN <<224 + (ch \div 4096), 128 + ((ch \div 64) % 64), 128 + (ch % 64)>>
    ELSE <<240 + (ch \div 262144), 128 + ((ch \div 4096) % 64),
           128 + ((ch \div 64) % 64), 128 + (ch % 64)>>

(***************************************************************************)
(* Selection (crate::selection) and the grid's view of it.                 *)
(***************************************************************************)
\* Selection::new
selection_new(ty, point, side) ==
    [ty |-> ty, start |-> [point |-> point, side |-> side],
     end |-> [point |-> point, side |-> side]]

\* Selection::update
selection_update(sel, point, side) ==
    [sel EXCEPT !.end = [point |-> point, side |-> side]]

PointLeq(a, b) == a.row < b.row \/ (a.row = b.row /\ a.col <= b.col)

\* Selection::include_all: both end cells are taken whole.
selection_include_all(sel) ==
    IF PointLeq(sel.start.point, sel.end.point)
    THEN [sel EXCEPT !.start.side = "Left", !.end.side = "Right"]
    ELSE [sel EXCEPT !.start.side = "Right", !.end.side = "Left"]

\* Selection::is_empty: a Simple or Block selection that has not left its
\* anchor is the "new empty selection" of on_left_click.
selection_is_empty(sel) ==
    sel.ty \in {"Simple", "Block"} /\ sel.start = sel.end

\* Selection::to_range
selection_to_range(sel) ==
    IF selection_is_empty(sel) THEN None
    ELSE IF PointLeq(sel.start.point, sel.end.point)
    THEN Some([start |-> sel.start.point, end |-> sel.end.point,
               is_block |-> sel.ty = "Block"])
    ELSE Some([start |-> sel.end.point, end |-> sel.start.point,
               is_block |-> sel.ty = "Block"])

\* Crosswords::selection_to_string: the text of the selected cells; a grid
\* holding no output yields the empty string.
selection_to_string(ctx) ==
    IF ~ctx.selection.some THEN None
    ELSE IF ~selection_to_range(ctx.selection.v).some THEN None
    ELSE Some(ctx.text)

\* Crosswords::bottommost_line
bottommost_line(ctx) == ctx.lines - 1

(***************************************************************************)
(* copy_selection, clear_selection, start_selection, update_selection,     *)
(* on_left_click.                                                          *)
(***************************************************************************)
clipboard_set(s, ty, text) == [s EXCEPT !.clipboard[ty] = text]

\* Mutant: a copy writes the slot it names and no other.
copy_selection_single_slot(s, ty) ==
    LET text == selection_to_string(current(s))
    IN  IF ~text.some \/ text.v = <<>>
        THEN s
        ELSE clipboard_set(s, ty, text.v)

copy_selection(s, ty) ==
    LET text == selection_to_string(current(s))
    IN  IF ~text.some \/ text.v = <<>>
        THEN s
        ELSE LET s1 == IF ty = "Selection"
                       THEN clipboard_set(s, "Clipboard", text.v)
                       ELSE s
             IN  clipboard_set(s1, ty, text.v)

\* State::set_selection
set_selection(s, range) == [s EXCEPT !.state.selection_range = range]

clear_selection(s) ==
    set_selection(with_current(s, [current(s) EXCEPT !.selection = None]), None)

\* Mutant: the selection is replaced without the snapshot.
start_selection_no_snapshot(s, ty, point, side) ==
    LET selection == selection_new(ty, point, side)
        s2 == set_selection(s, selection_to_range(selection))
    IN  with_current(s2, [current(s2) EXCEPT !.selection = Some(selection)])

start_selection(s, ty, point, side) ==
    LET s1 == copy_selection(s, "Selection")
        selection == selection_new(ty, point, side)
        s2 == set_selection(s1, selection_to_range(selection))
    IN  with_current(s2, [current(s2) EXCEPT !.selection = Some(selection)])

\* Mutant: the target row is used as it comes.
update_selection_no_clamp(s, pos, side) ==
    LET terminal == current(s)
    IN  IF ~terminal.selection.some
        THEN s
        ELSE LET sel1 == selection_update(terminal.selection.v, pos, side)
                 vi == "VI" \in terminal.mode
                 sel2 == IF vi THEN selection_include_all(sel1) ELSE sel1
                 term1 == IF vi
                          THEN [terminal EXCEPT !.vi_mode_cursor = pos]
                          ELSE terminal
                 s1 == set_selection(s, selection_to_range(sel2))
             IN  with_current(s1, [term1 EXCEPT !.selection = Some(sel2)])

update_selection(s, pos, side) ==
    LET terminal == current(s)
    IN  IF ~terminal.selection.some
        THEN s
        ELSE LET pos1 == [pos EXCEPT !.row = Min(pos.row, bottommost_line(terminal))]
                 sel1 == selection_update(terminal.selection.v, pos1, side)
                 vi == "VI" \in terminal.mode
                 sel2 == IF vi THEN selection_include_all(sel1) ELSE sel1
                 term1 == IF vi
                          THEN [terminal EXCEPT !.vi_mode_cursor = pos1]
                          ELSE terminal
                 s1 == set_selection(s, selection_to_range(sel2))
             IN  with_current(s1, [term1 EXCEPT !.selection = Some(sel2)])

\* Mutant: the granularities of the double and the triple click are exchanged.
on_left_click_swapped(s, point) ==
    LET side == s.mouse.square_side
        click == s.mouse.click_state
        s1 == IF click = "Click"
              THEN start_selection(clear_selection(s),
                       IF "ctrl" \in s.modifiers THEN "Block" ELSE "Simple",
                       point, side)
              ELSE IF click = "DoubleClick"
              THEN start_selection(s, "Lines", point, side)
              ELSE IF click = "TripleClick"
              THEN start_selection(s, "Semantic", point, side)
              ELSE s
    IN  IF "VI" \in current(s1).mode
        THEN with_current(s1, [current(s1) EXCEPT !.vi_mode_cursor = point])
        ELSE s1

on_left_click(s, point) ==
    LET side == s.mouse.square_side
        click == s.mouse.click_state
        s1 == IF click = "Click"
              THEN start_selection(clear_selection(s),
                       IF "ctrl" \in s.modifiers THEN "Block" ELSE "Simple",
                       point, side)
              ELSE IF click = "DoubleClick"
              THEN start_selection(s, "Semantic", point, side)
              ELSE IF click = "TripleClick"
              THEN start_selection(s, "Lines", point, side)
              ELSE s
    IN  IF "VI" \in current(s1).mode
        THEN with_current(s1, [current(s1) EXCEPT !.vi_mode_cursor = point])
        ELSE s1

(***************************************************************************)
(* paste, input_character, render.                                         *)
(***************************************************************************)
\* Mutant: the text goes between the markers as it is.
paste_unfiltered(s, text, bracketed) ==
    IF bracketed /\ "BRACKETED_PASTE" \in get_mode(s)
    THEN send_bytes(
             send_bytes(
                 send_bytes(s, <<ESC, 91, 50, 48, 48, 126>>),
                 text),
             <<ESC, 91, 50, 48, 49, 126>>)
    ELSE send_bytes(s, normalize_newlines(text))

paste(s, text, bracketed) ==
    IF bracketed /\ "BRACKETED_PASTE" \in get_mode(s)
    THEN send_bytes(
             send_bytes(
                 send_bytes(s, <<ESC, 91, 50, 48, 48, 126>>),
                 filter_paste(text)),
             <<ESC, 91, 50, 48, 49, 126>>)
    ELSE send_bytes(s, normalize_newlines(text))

scroll_bottom_when_cursor_not_visible(s) ==
    IF current(s).display_offset # 0
    THEN with_current(s, [current(s) EXCEPT !.display_offset = 0])
    ELSE s

\* alt_send_esc: true off macOS, State::option_as_alt on macOS.
alt_send_esc(s) == s.state.alt_send_esc

\* Mutant: only a preedit in progress holds the character back.
input_character_ignores_flag(s, character) ==
    IF s.ime.preedit.some
    THEN s
    ELSE LET s1 == scroll_bottom_when_cursor_not_visible(clear_selection(s))
             utf8 == encode_utf8(character)
             bytes == IF alt_send_esc(s1) /\ "alt" \in s1.modifiers
                         /\ Len(utf8) = 1
                      THEN <<ESC>> \o utf8
                      ELSE utf8
         IN  send_bytes(s1, bytes)

\* Mutant: alt prefixes ESC whatever the length of the encoding.
input_character_esc_any_length(s, character) ==
    IF s.ime.preedit.some \/ s.ignore_chars
    THEN s
    ELSE LET s1 == scroll_bottom_when_cursor_not_visible(clear_selection(s))
             utf8 == encode_utf8(character)
             bytes == IF alt_send_esc(s1) /\ "alt" \in s1.modifiers
                      THEN <<ESC>> \o utf8
                      ELSE utf8
         IN  send_bytes(s1, bytes)

input_character(s, character) ==
    IF s.ime.preedit.some \/ s.ignore_chars
    THEN s
    ELSE LET s1 == scroll_bottom_when_cursor_not_visible(clear_selection(s))
             utf8 == encode_utf8(character)
             bytes == IF alt_send_esc(s1) /\ "alt" \in s1.modifiers
                         /\ Len(utf8) = 1
                      THEN <<ESC>> \o utf8
                      ELSE utf8
         IN  send_bytes(s1, bytes)

\* State::set_ime
set_ime(s, preedit) == [s EXCEPT !.state.ime = preedit]

\* State::update: the frame is drawn from the rows, the cursor and the
\* display offset render hands over and from the selection projection that
\* set_selection stored; the projection is recomputed on start, update and
\* clear only (specification, section 4.5).
state_update(s) == s

\* render: reads visible rows, cursor and display offset of the current grid
\* under the lock, then updates the State.
render(s) == state_update(set_ime(s, s.ime.preedit))

(***************************************************************************)
(* ContextManager: the ordered Contexts of the window and the current one. *)
(***************************************************************************)
\* A Context as ContextManager creates it: grid fields read by Screen under
\* the terminal lock, and the Messenger's channel.
\* wheeled is a history field: the Context was current for a wheel event.
\* lock is the holder of the terminal's mutex: "free", "screen" or "parser".
NewContext(id, mode, offset, columns, lines) ==
    [id |-> id, mode |-> mode, display_offset |-> offset, selection |-> None,
     vi_mode_cursor |-> Pos(0, 0), messenger |-> <<>>,
     columns |-> columns, lines |-> lines, text |-> <<>>,
     wheeled |-> FALSE, lock |-> "free"]

len(cm) == Len(cm.contexts)

\* The id of a new Context: the smallest one no live Context holds.
fresh_id(cm) ==
    LET used == {cm.contexts[i].id : i \in 1..Len(cm.contexts)}
    IN  CHOOSE n \in 0..Len(cm.contexts) :
            n \notin used /\ \A m \in 0..(n - 1) : m \in used

add_context(cm, redirect, columns, lines) ==
    [cm EXCEPT
        !.contexts = Append(@, NewContext(fresh_id(cm), {}, 0, columns, lines)),
        !.current_index = IF redirect THEN len(cm) ELSE @]

\* Mutant: the index advances without wrapping.
switch_to_next_no_wrap(cm) ==
    [cm EXCEPT !.current_index = @ + 1]

switch_to_next(cm) ==
    [cm EXCEPT !.current_index = (@ + 1) % len(cm)]

\* Mutant: the last Context is closed like any other.
close_context_no_refuse(cm) ==
    LET i == cm.current_index + 1
    IN  [cm EXCEPT
            !.contexts = SubSeq(@, 1, i - 1) \o SubSeq(@, i + 1, Len(@)),
            !.current_index = IF @ > 0 THEN @ - 1 ELSE 0]

\* Refuses at length 1; otherwise removes the current Context and makes the
\* previous one current, or the next one when the first was closed.
close_context(cm) ==
    IF len(cm) = 1 THEN cm
    ELSE LET i == cm.current_index + 1
         IN  [cm EXCEPT
                !.contexts = SubSeq(@, 1, i - 1) \o SubSeq(@, i + 1, Len(@)),
                !.current_index = IF @ > 0 THEN @ - 1 ELSE 0]

\* The new OS window has a Context collection of its own: the collection of
\* this window is as it was.
create_new_window(cm) == cm

\* try_close_existent_tab: closes the current tab when it is not the only
\* one and tells whether it did.
try_close_existent_tab(s) ==
    IF len(s.context_manager) > 1
    THEN [s |-> [s EXCEPT !.context_manager = close_context(@)], closed |-> TRUE]
    ELSE [s |-> s, closed |-> FALSE]

(***************************************************************************)
(* resize_all_contexts and change_font_size.                               *)
(***************************************************************************)
as_u16(x) == x % 65536

resize_context(ctx, width, height, columns, lines) ==
    [ctx EXCEPT !.columns = columns, !.lines = lines,
                !.messenger = Append(@, [t |-> "resize", width |-> width,
                                         height |-> height,
                                         columns |-> as_u16(columns),
                                         lines |-> as_u16(lines)])]

resize_all_contexts(s, width, height, columns, lines) ==
    [s EXCEPT !.context_manager.contexts =
        [i \in 1..Len(@) |-> resize_context(@[i], width, height, columns, lines)]]

\* The layout answers whether the font size changed (should_update) and,
\* through update(), what the grid's size now is: geometry is that answer.
change_font_size(s, geometry) ==
    IF ~geometry.should_update
    THEN s
    ELSE LET s1 == [s EXCEPT !.sugarloaf.layout.columns = geometry.columns,
                             !.sugarloaf.layout.lines = geometry.lines,
                             !.sugarloaf.layout.font_size = geometry.font_size]
             layout == s1.sugarloaf.layout
         IN  resize_all_contexts(s1, as_u16(layout.width), as_u16(layout.height),
                                 layout.columns, layout.lines)

(***************************************************************************)
(* Key bindings and input_keycode.                                         *)
(***************************************************************************)
\* BindingMode::new: the mode bits bindings can ask for.
BindingFlags == {"APP_CURSOR", "ALT_SCREEN", "BRACKETED_PASTE", "VI"}
BindingMode_new(mode) == mode \cap BindingFlags

Keycode(k) == [kind |-> "Keycode", v |-> k]
Scancode(c) == [kind |-> "Scancode", v |-> c]

Binding(trigger, mods, mode, notmode, action) ==
    [trigger |-> trigger, mods |-> mods, mode |-> mode, notmode |-> notmode,
     action |-> action]

Esc(text) == [t |-> "Esc", s |-> text]
Act(name) == [t |-> name]

\* The binding table, in priority order.
KeyBindings ==
    << Binding(Keycode("Up"), {}, {"APP_CURSOR"}, {"VI"}, Esc(<<27, 79, 65>>)),
       Binding(Keycode("Up"), {}, {}, {"APP_CURSOR", "VI"}, Esc(<<27, 91, 65>>)),
       Binding(Keycode("Up"), {}, {"VI"}, {}, [t |-> "ViMotion", motion |-> "Up"]),
       Binding(Keycode("Up"), {}, {"ALT_SCREEN"}, {}, Esc(<<27, 91, 49, 65>>)),
       Binding(Keycode("Return"), {"alt"}, {}, {"VI"}, Act("ReceiveChar")),
       Binding(Keycode("Return"), {"alt"}, {}, {}, Esc(<<27, 13, 10>>)),
       Binding(Scancode(36), {"shift"}, {}, {}, Esc(<<27, 91, 49, 51, 59, 50, 117>>)),
       Binding(Keycode("T"), {"ctrl"}, {}, {}, Act("TabCreateNew")),
       Binding(Keycode("Tab"), {"ctrl"}, {}, {}, Act("TabSwitchNext")),
       Binding(Keycode("Tab"), {"ctrl"}, {"APP_CURSOR"}, {}, Esc(<<27, 91, 90>>)),
       Binding(Keycode("W"), {"ctrl"}, {}, {}, Act("TabCloseCurrent")),
       Binding(Keycode("C"), {"ctrl"}, {}, {"VI"}, Act("Copy")),
       Binding(Keycode("V"), {"ctrl"}, {}, {"VI"}, Act("Paste")),
       Binding(Keycode("Insert"), {"shift"}, {}, {"VI"}, Act("PasteSelection")),
       Binding(Keycode("N"), {"ctrl"}, {}, {}, Act("WindowCreateNew")),
       Binding(Keycode("Plus"), {"ctrl"}, {}, {}, Act("IncreaseFontSize")),
       Binding(Keycode("Minus"), {"ctrl"}, {}, {}, Act("DecreaseFontSize")),
       Binding(Keycode("Key0"), {"ctrl"}, {}, {}, Act("ResetFontSize")),
       Binding(Keycode("F1"), {}, {}, {}, Act("None")) >>

\* The key a binding is compared with: the scancode for a scancode binding,
\* else the virtual keycode when the event has one (None: the binding is
\* skipped).
binding_key(binding, virtual_keycode, scancode) ==
    IF binding.trigger.kind = "Scancode" THEN Some(Scancode(scancode))
    ELSE IF virtual_keycode.some THEN Some(Keycode(virtual_keycode.v))
    ELSE None

\* Binding::is_triggered_by
is_triggered_by(binding, mode, mods, key) ==
    /\ binding.trigger = key
    /\ binding.mods = mods
    /\ binding.mode \subseteq mode
    /\ binding.notmode \cap mode = {}

\* Crosswords::vi_motion: the vi cursor moves one cell, within the grid.
vi_motion(ctx, motion) ==
    LET p == ctx.vi_mode_cursor
    IN  [ctx EXCEPT !.vi_mode_cursor =
            IF motion = "Up" THEN Pos(Max(p.row - 1, 0), p.col)
            ELSE IF motion = "Down" THEN Pos(Min(p.row + 1, ctx.lines - 1), p.col)
            ELSE IF motion = "Left" THEN Pos(p.row, Max(p.col - 1, 0))
            ELSE Pos(p.row, Min(p.col + 1, ctx.columns - 1))]

\* The match on binding.action.
execute(s, action, geometry) ==
    IF action.t = "Esc" THEN send_bytes(s, normalize_newlines(action.s))
    ELSE IF action.t = "Paste" THEN paste(s, s.clipboard["Clipboard"], TRUE)
    ELSE IF action.t = "PasteSelection" THEN paste(s, s.clipboard["Selection"], TRUE)
    ELSE IF action.t = "Copy" THEN copy_selection(s, "Clipboard")
    ELSE IF action.t = "ViMotion"
    THEN with_current(s, vi_motion(current(s), action.motion))
    ELSE IF action.t = "WindowCreateNew"
    THEN [s EXCEPT !.context_manager = create_new_window(@)]
    ELSE IF action.t = "TabCreateNew"
    THEN render([s EXCEPT !.context_manager =
                    add_context(@, TRUE, s.sugarloaf.layout.columns,
                                s.sugarloaf.layout.lines)])
    ELSE IF action.t = "TabSwitchNext"
    THEN render([s EXCEPT !.context_manager = switch_to_next(@)])
    ELSE IF action.t = "TabCloseCurrent"
    THEN render([s EXCEPT !.context_manager = close_context(@)])
    ELSE IF action.t \in {"IncreaseFontSize", "DecreaseFontSize", "ResetFontSize"}
    THEN change_font_size(s, geometry)
    ELSE s

\* Mutant: the last binding that fired decides.
update_ignore_chars_last_wins(ignore, action) ==
    Some(action.t # "ReceiveChar")

\* `*ignore_chars.get_or_insert(true) &= binding.action != Act::ReceiveChar`
update_ignore_chars(ignore, action) ==
    Some((IF ignore.some THEN ignore.v ELSE TRUE) /\ action.t # "ReceiveChar")

\* Mutant: the scan stops at the first binding that fires.
RECURSIVE scan_bindings_first_match(_, _, _, _, _, _)
scan_bindings_first_match(r, i, mode, virtual_keycode, scancode, geometry) ==
    IF i > Len(KeyBindings) THEN r
    ELSE LET binding == KeyBindings[i]
             key == binding_key(binding, virtual_keycode, scancode)
         IN  IF key.some /\ is_triggered_by(binding, mode, r.s.modifiers, key.v)
             THEN [s |-> execute(r.s, binding.action, geometry),
                   ignore_chars |-> update_ignore_chars(r.ignore_chars, binding.action),
                   fired |-> Append(r.fired, i)]
             ELSE scan_bindings_first_match(r, i + 1, mode, virtual_keycode,
                                            scancode, geometry)

\* The loop over the table from binding i on: r carries the Screen, the
\* local ignore_chars and the indices of the bindings that fired.
RECURSIVE scan_bindings(_, _, _, _, _, _)
scan_bindings(r, i, mode, virtual_keycode, scancode, geometry) ==
    IF i > Len(KeyBindings) THEN r
    ELSE LET binding == KeyBindings[i]
             key == binding_key(binding, virtual_keycode, scancode)
             r1 == IF key.some /\ is_triggered_by(binding, mode, r.s.modifiers, key.v)
                   THEN [s |-> execute(r.s, binding.action, geometry),
                         ignore_chars |-> update_ignore_chars(r.ignore_chars,
                                                              binding.action),
                         fired |-> Append(r.fired, i)]
                   ELSE r
         IN  scan_bindings(r1, i + 1, mode, virtual_keycode, scancode, geometry)

\* input_keycode, with the indices of the bindings that fired beside the
\* Screen it leaves; a preedit in progress returns before the loop.
input_keycode_scan(s, virtual_keycode, scancode, geometry) ==
    IF s.ime.preedit.some
    THEN [s |-> s, fired |-> <<>>]
    ELSE LET r == scan_bindings([s |-> s, ignore_chars |-> None, fired |-> <<>>],
                      1, BindingMode_new(get_mode(s)), virtual_keycode,
                      scancode, geometry)
         IN  [s |-> [r.s EXCEPT !.ignore_chars =
                        IF r.ignore_chars.some THEN r.ignore_chars.v ELSE FALSE],
              fired |-> r.fired]

input_keycode(s, virtual_keycode, scancode, geometry) ==
    input_keycode_scan(s, virtual_keycode, scancode, geometry).s

(***************************************************************************)
(* The state after Screen::new, and the events of the event loop.          *)
(***************************************************************************)
\* Layouts of the window: a small-cell layout whose grid is wider and taller
\* than every legacy cap, and an 80x24 layout with padding and a scale factor.
WideLayout ==
    [columns |-> 2100, lines |-> 2100, style |-> [text_scale |-> 2],
     padding |-> [x |-> 0, y |-> 0], scale_factor |-> 1, font_size |-> 2,
     width |-> 2100, height |-> 4200]

PaddedLayout ==
    [columns |-> 80, lines |-> 24, style |-> [text_scale |-> 16],
     padding |-> [x |-> 10, y |-> 5], scale_factor |-> 2, font_size |-> 16,
     width |-> 660, height |-> 394]

\* Mouse::default()
MouseDefault ==
    [x |-> 0, y |-> 0, click_state |-> "None", square_side |-> "Left",
     accumulated_scroll |-> [x |-> 0, y |-> 0], multiplier |-> 3]

\* Screen::new: context is the Context ContextManager::start created.
InitWith(layout, context, mods) ==
    /\ clipboard = [Clipboard |-> <<>>, Selection |-> <<>>]
    /\ modifiers = mods
    /\ ignore_chars = FALSE
    /\ ime = [preedit |-> None]
    /\ state = [selection_range |-> None, ime |-> None, alt_send_esc |-> TRUE]
    /\ sugarloaf = [layout |-> layout]
    /\ context_manager = [contexts |-> <<context>>, current_index |-> 0]
    /\ last = [op |-> "new"]

\* The pseudo-terminal writer takes the oldest message of a Context's channel.
PtyRead(i) ==
    /\ i \in 1..Len(context_manager.contexts)
    /\ context_manager.contexts[i].messenger # <<>>
    /\ context_manager' =
         [context_manager EXCEPT !.contexts[i].messenger = Tail(@)]
    /\ last' = [op |-> "pty_read"]
    /\ UNCHANGED <<clipboard, modifiers, ignore_chars, mouse, ime, state, sugarloaf>>

\* The Messenger channels have room: the handler is not held back.
RECURSIVE pending(_)
pending(contexts) ==
    IF contexts = <<>> THEN 0
    ELSE Len(Head(contexts).messenger) + pending(Tail(contexts))

HasRoom == pending(context_manager.contexts) <= MaxPending

SetModifiers(m) ==
    /\ Store(set_modifiers(Self, m))
    /\ last' = [op |-> "set_modifiers"]

\* The event loop stores the pointer's pixel position in the public field.
CursorMoved(x, y) ==
    /\ mouse' = [mouse EXCEPT !.x = x, !.y = y]
    /\ last' = [op |-> "cursor_moved"]
    /\ UNCHANGED <<clipboard, modifiers, ignore_chars, ime, state, sugarloaf,
                   context_manager>>

MouseReport(button, st) ==
    /\ HasRoom
    /\ Store(mouse_report(Self, button, st))
    /\ last' = [op |-> "mouse_report", button |-> button, st |-> st]

\* The event loop stores the Ime's preedit text.
SetPreedit(p) ==
    /\ ime' = [ime EXCEPT !.preedit = p]
    /\ last' = [op |-> "set_preedit"]
    /\ UNCHANGED <<clipboard, modifiers, ignore_chars, mouse, state, sugarloaf,
                   context_manager>>

\* No font key of this model changes the geometry.
NoGeometry == [should_update |-> FALSE]

InputKeycode(virtual_keycode, scancode, geometry) ==
    /\ HasRoom
    /\ \E r \in {input_keycode_scan(Self, virtual_keycode, scancode, geometry)} :
        /\ len(r.s.context_manager) <= MaxContexts
        /\ Store(r.s)
        /\ last' = [op |-> "input_keycode",
                    virtual_keycode |-> virtual_keycode, scancode |-> scancode,
                    fired |-> r.fired]

InputCharacter(character) ==
    /\ HasRoom
    /\ Store(input_character(Self, character))
    /\ last' = [op |-> "input_character", character |-> character]

\* The event loop classifies the click and the cell side, then calls
\* on_left_click with the cell under the pointer.
LeftClick(click_state, side, point) ==
    LET s == [Self EXCEPT !.mouse.click_state = click_state,
                          !.mouse.square_side = side]
    IN  /\ Store(on_left_click(s, point))
        /\ last' = [op |-> "on_left_click", point |-> point]

UpdateSelection(pos, side) ==
    /\ Store(update_selection(Self, pos, side))
    /\ last' = [op |-> "update_selection", pos |-> pos, side |-> side]

ClearSelection ==
    /\ Store(clear_selection(Self))
    /\ last' = [op |-> "clear_selection"]

\* A wheel event.
Scroll(dx, dy) ==
    LET r == scroll(Self, dx, dy)
    IN  /\ HasRoom
        /\ Store(with_current(r, [current(r) EXCEPT !.wheeled = TRUE]))
        /\ last' = [op |-> "scroll", dx |-> dx, dy |-> dy]

\* A vertical wheel event of a run of wheel events: last keeps the number of
\* events of the run and the sum of their deltas.
ScrollRun(dy) ==
    LET run == last.op = "scroll"
        events == IF run THEN last.events ELSE 0
        r == scroll(Self, 0, dy)
    IN  /\ HasRoom
        /\ events < MaxWheelEvents
        /\ Store(with_current(r, [current(r) EXCEPT !.wheeled = TRUE]))
        /\ last' = [op |-> "scroll", dx |-> 0, dy |-> dy,
                    events |-> events + 1,
                    total_y |-> (IF run THEN last.total_y ELSE 0) + dy]

(***************************************************************************)
(* Spec: key events against the binding table.                             *)
(***************************************************************************)
KeyModes ==
    {{}, {"VI"}, {"APP_CURSOR", "ALT_SCREEN"}, {"APP_CURSOR", "SGR_MOUSE"}}
KeyModifiers == {{}, {"shift"}, {"alt"}, {"ctrl"}}
\* Key events: the virtual keycode, if the platform gives one, and the scancode.
KeyEvent(k, c) == [virtual_keycode |-> k, scancode |-> c]
KeyEvents ==
    {KeyEvent(None, 36), KeyEvent(None, 125), KeyEvent(Some("Return"), 36),
     KeyEvent(Some("Up"), 103), KeyEvent(Some("T"), 20), KeyEvent(Some("Tab"), 15),
     KeyEvent(Some("W"), 17), KeyEvent(Some("C"), 46), KeyEvent(Some("V"), 47),
     KeyEvent(Some("N"), 49), KeyEvent(Some("F1"), 59), KeyEvent(Some("Q"), 16)}

Init ==
    \E mode \in KeyModes :
        /\ InitWith(PaddedLayout, NewContext(0, mode, 0, 80, 24), {})
        /\ mouse = MouseDefault

Next ==
    \/ \E m \in KeyModifiers : SetModifiers(m)
    \/ \E e \in KeyEvents :
          InputKeycode(e.virtual_keycode, e.scancode, NoGeometry)
    \/ \E i \in 1..MaxContexts : PtyRead(i)

Spec == Init /\ [][Next]_vars

(***************************************************************************)
(* SpecInput: key events, character events and clicks on one Context whose *)
(* grid holds output and may be scrolled back.                             *)
(***************************************************************************)
InputModes == {{}, {"APP_CURSOR"}}
InputOffsets == {0, 2}
InputModifiers == {{}, {"alt"}, {"ctrl"}}
InputKeyEvents ==
    {KeyEvent(Some("Return"), 36), KeyEvent(Some("Up"), 103),
     KeyEvent(Some("Q"), 16)}
InputChars == {97}
ClickStates == {"None", "Click", "DoubleClick", "TripleClick"}
ClickPoint == Pos(1, 2)
\* A drag target below the last line of the 80x24 grid.
DragPoint == Pos(30, 3)

InitInput ==
    \E mode \in InputModes, offset \in InputOffsets :
        /\ InitWith(PaddedLayout,
                    [NewContext(0, mode, offset, 80, 24) EXCEPT !.text = <<111, 107>>],
                    {})
        /\ mouse = MouseDefault

NextInput ==
    \/ \E m \in InputModifiers : SetModifiers(m)
    \/ \E p \in {None, Some(<<110>>)} : SetPreedit(p)
    \/ \E e \in InputKeyEvents :
          InputKeycode(e.virtual_keycode, e.scancode, NoGeometry)
    \/ \E c \in InputChars : InputCharacter(c)
    \/ \E cs \in ClickStates : LeftClick(cs, "Left", ClickPoint)
    \/ UpdateSelection(DragPoint, "Right")
    \/ ClearSelection
    \/ \E i \in 1..MaxContexts : PtyRead(i)

SpecInput == InitInput /\ [][NextInput]_vars

(***************************************************************************)
(* SpecTabs: selections on the Contexts of a window whose tabs are         *)
(* created, switched and closed.                                           *)
(***************************************************************************)
TabModifiers == {{}, {"ctrl"}}
TabKeyEvents ==
    {KeyEvent(Some("T"), 20), KeyEvent(Some("Tab"), 15), KeyEvent(Some("W"), 17)}
TabClickStates == {"Click", "DoubleClick", "TripleClick"}

InitTabs ==
    /\ InitWith(PaddedLayout,
                [NewContext(0, {}, 0, 80, 24) EXCEPT !.text = <<111, 107>>], {})
    /\ mouse = MouseDefault

NextTabs ==
    \/ \E m \in TabModifiers : SetModifiers(m)
    \/ \E e \in TabKeyEvents :
          InputKeycode(e.virtual_keycode, e.scancode, NoGeometry)
    \/ \E c \in InputChars : InputCharacter(c)
    \/ \E cs \in TabClickStates : LeftClick(cs, "Left", ClickPoint)
    \/ UpdateSelection(DragPoint, "Right")
    \/ ClearSelection
    \/ \E i \in 1..MaxContexts : PtyRead(i)

SpecTabs == InitTabs /\ [][NextTabs]_vars

(***************************************************************************)
(* SpecContexts: the tab operations of a window, called directly on the    *)
(* ContextManager, through try_close_existent_tab and through key events.  *)
(***************************************************************************)
AddContext(redirect) ==
    /\ len(context_manager) <= MaxContexts
    /\ context_manager' =
         add_context(context_manager, redirect, sugarloaf.layout.columns,
                     sugarloaf.layout.lines)
    /\ last' = [op |-> "add_context", redirect |-> redirect,
                prior_len |-> len(context_manager),
                prior_id |-> current(Self).id]
    /\ UNCHANGED <<clipboard, modifiers, ignore_chars, mouse, ime, state, sugarloaf>>

SwitchToNext ==
    /\ context_manager' = switch_to_next(context_manager)
    /\ last' = [op |-> "switch_to_next"]
    /\ UNCHANGED <<clipboard, modifiers, ignore_chars, mouse, ime, state, sugarloaf>>

CloseContext ==
    /\ context_manager' = close_context(context_manager)
    /\ last' = [op |-> "close_context"]
    /\ UNCHANGED <<clipboard, modifiers, ignore_chars, mouse, ime, state, sugarloaf>>

TryCloseExistentTab ==
    \E r \in {try_close_existent_tab(Self)} :
        /\ Store(r.s)
        /\ last' = [op |-> "try_close_existent_tab", closed |-> r.closed]

InitContexts ==
    /\ InitWith(PaddedLayout, NewContext(0, {}, 0, 80, 24), {"ctrl"})
    /\ mouse = MouseDefault

NextContexts ==
    \/ \E redirect \in BOOLEAN : AddContext(redirect)
    \/ SwitchToNext
    \/ CloseContext
    \/ TryCloseExistentTab
    \/ \E e \in TabKeyEvents :
          InputKeycode(e.virtual_keycode, e.scancode, NoGeometry)

SpecContexts == InitContexts /\ [][NextContexts]_vars

(***************************************************************************)
(* SpecWheel: a run of wheel events in one direction on the normal screen. *)
(* SpecScroll: wheel events in both directions, in every mode, with        *)
(* modifier changes and tabs created and switched in between.              *)
(***************************************************************************)
ScrollLayout ==
    [columns |-> 4, lines |-> 2, style |-> [text_scale |-> 16],
     padding |-> [x |-> 0, y |-> 0], scale_factor |-> 2, font_size |-> 16,
     width |-> 32, height |-> 40]

WheelMultipliers == {1, 3}
WheelModes == {{}, {"ALT_SCREEN"}, {"ALTERNATE_SCROLL"}}
WheelModifiers == {{}, {"shift"}, {"ctrl"}}
WheelUp == {2, 6}

InitWheel ==
    \E mode \in WheelModes, m \in WheelModifiers, k \in WheelMultipliers :
        /\ InitWith(ScrollLayout, NewContext(0, mode, 0, 4, 2), m)
        /\ mouse = [MouseDefault EXCEPT !.multiplier = k]

NextWheel ==
    \E dy \in WheelUp : ScrollRun(dy)

SpecWheel == InitWheel /\ [][NextWheel]_vars

ScrollModes == {{}, {"ALT_SCREEN", "ALTERNATE_SCROLL"}}
ScrollModifiers == {{}, {"shift"}, {"ctrl"}}
ScrollXs == {0, 32}
ScrollYs == {0 - 8, 8, 40}
ScrollKeyEvents == {KeyEvent(Some("T"), 20), KeyEvent(Some("Tab"), 15)}

InitScroll ==
    \E mode \in ScrollModes :
        /\ InitWith(ScrollLayout, NewContext(0, mode, 0, 4, 2), {})
        /\ mouse = MouseDefault

NextScroll ==
    \/ \E dx \in ScrollXs, dy \in ScrollYs : Scroll(dx, dy)
    \/ \E m \in ScrollModifiers : SetModifiers(m)
    \/ \E e \in ScrollKeyEvents :
          InputKeycode(e.virtual_keycode, e.scancode, NoGeometry)
    \/ \E i \in 1..MaxContexts : PtyRead(i)

SpecScroll == InitScroll /\ [][NextScroll]_vars

(***************************************************************************)
(* The handlers that take the terminal lock, statement by statement.  A    *)
(* handler is a sequence of steps: "lock" and "drop" take and release the  *)
(* lock of a Context (target 0 is the current one), "grid" runs under the  *)
(* lock, "state" touches the Screen only, "io" sends through a Messenger   *)
(* or writes the clipboard.  A grid step that returns early releases the   *)
(* lock, as the guard going out of scope does, and skips the steps left of *)
(* the function it returns from.  While a handler runs, last holds the     *)
(* steps, the position in them, the arguments and the locals.              *)
(***************************************************************************)
Step(k, f, target, skip) == [k |-> k, f |-> f, target |-> target, skip |-> skip]

\* Mutant: the resize notification is sent before the grid lock is dropped.
resize_all_contexts_steps_send_locked(n) ==
    [j \in 1..(4 * n) |->
        LET i == ((j - 1) \div 4) + 1
            r == ((j - 1) % 4) + 1
        IN  Step(<<"lock", "grid", "io", "drop">>[r],
                 <<"", "resize", "send_resize", "">>[r], i, 0)]

\* resize_all_contexts: for each Context in order, lock, resize, drop, then
\* send_resize.
resize_all_contexts_steps(n) ==
    [j \in 1..(4 * n) |->
        LET i == ((j - 1) \div 4) + 1
            r == ((j - 1) % 4) + 1
        IN  Step(<<"lock", "grid", "drop", "io">>[r],
                 <<"", "resize", "", "send_resize">>[r], i, 0)]

\* Mutant: the clipboard is written before the grid lock is dropped.
copy_selection_steps_set_locked ==
    <<Step("lock", "", 0, 0), Step("grid", "selection_to_string", 0, 2),
      Step("io", "clipboard_set", 0, 0), Step("drop", "", 0, 0)>>

copy_selection_steps ==
    <<Step("lock", "", 0, 0), Step("grid", "selection_to_string", 0, 2),
      Step("drop", "", 0, 0), Step("io", "clipboard_set", 0, 0)>>

clear_selection_steps ==
    <<Step("lock", "", 0, 0), Step("grid", "selection_take", 0, 0),
      Step("drop", "", 0, 0), Step("state", "set_selection_none", 0, 0)>>

start_selection_steps ==
    copy_selection_steps
        \o <<Step("lock", "", 0, 0), Step("grid", "start_selection", 0, 0),
             Step("drop", "", 0, 0)>>

update_selection_steps ==
    <<Step("lock", "", 0, 0), Step("grid", "update_selection", 0, 1),
      Step("drop", "", 0, 0)>>

on_left_click_steps(click_state) ==
    (IF click_state = "Click" THEN clear_selection_steps \o start_selection_steps
     ELSE IF click_state = "None" THEN <<>>
     ELSE start_selection_steps)
        \o <<Step("lock", "", 0, 0), Step("grid", "vi_mode_cursor", 0, 0),
             Step("drop", "", 0, 0)>>

mouse_report_steps ==
    <<Step("lock", "", 0, 0), Step("grid", "display_offset_and_mode", 0, 0),
      Step("drop", "", 0, 0), Step("io", "mouse_report", 0, 0)>>

\* The granularity on_left_click asks start_selection for.
click_selection_type(s, click_state) ==
    IF click_state = "Click"
    THEN IF "ctrl" \in s.modifiers THEN "Block" ELSE "Simple"
    ELSE IF click_state = "DoubleClick" THEN "Semantic" ELSE "Lines"

\* What a grid, state or io step does: the Screen after it, the locals after
\* it, and whether the function returned early.
effect(s, fl, step, i) ==
    LET ctx == s.context_manager.contexts[i]
        put(c) == [s EXCEPT !.context_manager.contexts[i] = c]
        keep(r) == [s |-> r, locals |-> fl.locals, ret |-> FALSE]
        a == fl.args
    IN  CASE step.f = "resize" ->
                keep(put([ctx EXCEPT !.columns = a.columns, !.lines = a.lines]))
          [] step.f = "send_resize" ->
                keep(put([ctx EXCEPT !.messenger =
                    Append(@, [t |-> "resize", width |-> a.width,
                               height |-> a.height,
                               columns |-> as_u16(a.columns),
                               lines |-> as_u16(a.lines)])]))
          [] step.f = "selection_to_string" ->
                LET text == selection_to_string(ctx)
                IN  [s |-> s, locals |-> [fl.locals EXCEPT !.text = text],
                     ret |-> ~text.some \/ text.v = <<>>]
          [] step.f = "clipboard_set" ->
                LET ty == IF fl.op = "copy_selection" THEN a.ty ELSE "Selection"
                    s1 == IF ty = "Selection"
                          THEN clipboard_set(s, "Clipboard", fl.locals.text.v)
                          ELSE s
                IN  keep(clipboard_set(s1, ty, fl.locals.text.v))
          [] step.f = "selection_take" ->
                keep(put([ctx EXCEPT !.selection = None]))
          [] step.f = "set_selection_none" -> keep(set_selection(s, None))
          [] step.f = "start_selection" ->
                LET selection ==
                        selection_new(click_selection_type(s, a.click_state),
                                      a.point, s.mouse.square_side)
                    s1 == set_selection(s, selection_to_range(selection))
                IN  keep([s1 EXCEPT !.context_manager.contexts[i].selection =
                                        Some(selection)])
          [] step.f = "update_selection" ->
                [s |-> update_selection(s, a.pos, a.side), locals |-> fl.locals,
                 ret |-> ~ctx.selection.some]
          [] step.f = "vi_mode_cursor" ->
                keep(IF "VI" \in ctx.mode
                     THEN put([ctx EXCEPT !.vi_mode_cursor = a.point])
                     ELSE s)
          [] step.f = "display_offset_and_mode" ->
                [s |-> s,
                 locals |-> [fl.locals EXCEPT !.display_offset = ctx.display_offset,
                                              !.mode = ctx.mode],
                 ret |-> FALSE]
          [] step.f = "mouse_report" ->
                LET read == put([ctx EXCEPT
                                    !.display_offset = fl.locals.display_offset,
                                    !.mode = fl.locals.mode])
                    sent == mouse_report(read, a.button, a.st)
                IN  keep([sent EXCEPT
                            !.context_manager.contexts[i].display_offset =
                                ctx.display_offset,
                            !.context_manager.contexts[i].mode = ctx.mode])

\* No handler is under way.
FlowIdle == IF "pc" \in DOMAIN last THEN last.pc = 0 ELSE TRUE

\* The step the handler under way is at, and the Context it targets.
FlowStep == last.steps[last.pc]
FlowTarget ==
    IF FlowStep.target = 0 THEN context_manager.current_index + 1
    ELSE FlowStep.target

\* The position n steps on, 0 past the last step.
FlowAdvance(n) == IF last.pc + n > Len(last.steps) THEN 0 ELSE last.pc + n

\* The event loop calls a handler; s is the Screen with what the event loop
\* stored beforehand.
Call(op, args, steps, s) ==
    /\ FlowIdle
    /\ pending(context_manager.contexts) = 0
    /\ Store(s)
    /\ last' = [op |-> op, args |-> args, steps |-> steps,
                pc |-> IF steps = <<>> THEN 0 ELSE 1,
                locals |-> [text |-> None, display_offset |-> 0, mode |-> {}]]

\* terminal.lock(): waits until the mutex is free.
FlowLock ==
    /\ ~FlowIdle
    /\ FlowStep.k = "lock"
    /\ context_manager.contexts[FlowTarget].lock = "free"
    /\ context_manager' =
         [context_manager EXCEPT !.contexts[FlowTarget].lock = "screen"]
    /\ last' = [last EXCEPT !.pc = FlowAdvance(1)]
    /\ UNCHANGED <<clipboard, modifiers, ignore_chars, mouse, ime, state, sugarloaf>>

\* drop(terminal)
FlowDrop ==
    /\ ~FlowIdle
    /\ FlowStep.k = "drop"
    /\ context_manager' =
         [context_manager EXCEPT !.contexts[FlowTarget].lock = "free"]
    /\ last' = [last EXCEPT !.pc = FlowAdvance(1)]
    /\ UNCHANGED <<clipboard, modifiers, ignore_chars, mouse, ime, state, sugarloaf>>

\* A statement under the lock, on the Screen, or an I/O call.
FlowRun ==
    /\ ~FlowIdle
    /\ FlowStep.k \in {"grid", "state", "io"}
    /\ \E r \in {effect(Self, last, FlowStep, FlowTarget)} :
        /\ Store(IF r.ret
                 THEN [r.s EXCEPT
                         !.context_manager.contexts[FlowTarget].lock = "free"]
                 ELSE r.s)
        /\ last' = [last EXCEPT
                      !.locals = r.locals,
                      !.pc = FlowAdvance(1 + (IF r.ret THEN FlowStep.skip ELSE 0))]

\* The parser flow of a Context takes the terminal lock to apply child
\* output to the grid, and releases it.
ParserLock(i) ==
    /\ i \in 1..len(context_manager)
    /\ context_manager.contexts[i].lock = "free"
    /\ context_manager' = [context_manager EXCEPT !.contexts[i].lock = "parser"]
    /\ UNCHANGED <<clipboard, modifiers, ignore_chars, mouse, ime, state,
                   sugarloaf, last>>

ParserUnlock(i) ==
    /\ i \in 1..len(context_manager)
    /\ context_manager.contexts[i].lock = "parser"
    /\ context_manager' = [context_manager EXCEPT !.contexts[i].lock = "free"]
    /\ UNCHANGED <<clipboard, modifiers, ignore_chars, mouse, ime, state,
                   sugarloaf, last>>

(***************************************************************************)
(* SpecLocks: the handlers step by step, interleaved with the parser flows *)
(* of the Contexts.                                                        *)
(***************************************************************************)
OldGeometry == [width |-> 660, height |-> 394, columns |-> 80, lines |-> 24]
NewGeometry == [width |-> 820, height |-> 490, columns |-> 100, lines |-> 30]
LockClickStates == {"Click"}

\* resize: the window's new size gives the layout its columns and lines.
CallResize(g) ==
    LET s == [Self EXCEPT !.sugarloaf.layout.columns = g.columns,
                          !.sugarloaf.layout.lines = g.lines,
                          !.sugarloaf.layout.width = g.width,
                          !.sugarloaf.layout.height = g.height]
    IN  Call("resize_all_contexts", g,
             resize_all_contexts_steps(len(context_manager)), s)

CallCopySelection(ty) ==
    Call("copy_selection", [ty |-> ty], copy_selection_steps, Self)

CallClearSelection ==
    Call("clear_selection", [none |-> TRUE], clear_selection_steps, Self)

CallLeftClick(click_state, point) ==
    Call("on_left_click", [click_state |-> click_state, point |-> point],
         on_left_click_steps(click_state),
         [Self EXCEPT !.mouse.click_state = click_state])

CallUpdateSelection(pos, side) ==
    Call("update_selection", [pos |-> pos, side |-> side],
         update_selection_steps, Self)

CallMouseReport(button, st) ==
    Call("mouse_report", [button |-> button, st |-> st], mouse_report_steps, Self)

InitLocks ==
    /\ InitWith(PaddedLayout,
                [NewContext(0, {}, 0, 80, 24) EXCEPT !.text = <<111, 107>>], {})
    /\ mouse = MouseDefault

NextLocks ==
    \/ CallResize(NewGeometry)
    \/ CallCopySelection("Clipboard")
    \/ CallClearSelection
    \/ \E cs \in LockClickStates : CallLeftClick(cs, ClickPoint)
    \/ CallUpdateSelection(DragPoint, "Right")
    \/ CallMouseReport(0, "Pressed")
    \/ FlowLock
    \/ FlowDrop
    \/ FlowRun
    \/ \E i \in 1..MaxContexts : ParserLock(i)
    \/ \E i \in 1..MaxContexts : ParserUnlock(i)
    \/ FlowIdle /\ len(context_manager) < MaxContexts /\ AddContext(TRUE)
    \/ FlowIdle /\ SwitchToNext
    \/ FlowIdle /\ \E i \in 1..MaxContexts : PtyRead(i)

SpecLocks == InitLocks /\ [][NextLocks]_vars

(***************************************************************************)
(* SpecResize: resize broadcasts over the tabs of the window, interleaved  *)
(* with the parser flows.                                                  *)
(***************************************************************************)
NextResize ==
    \/ \E g \in {OldGeometry, NewGeometry} : CallResize(g)
    \/ FlowLock
    \/ FlowDrop
    \/ FlowRun
    \/ \E i \in 1..MaxContexts : ParserLock(i)
    \/ \E i \in 1..MaxContexts : ParserUnlock(i)
    \/ \E redirect \in BOOLEAN : FlowIdle /\ AddContext(redirect)
    \/ FlowIdle /\ \E i \in 1..MaxContexts : PtyRead(i)

SpecResize == InitLocks /\ [][NextResize]_vars

(***************************************************************************)
(* SpecChars: character events of one to four UTF-8 bytes, with and        *)
(* without alt, over a selection and a scrolled-back grid.                 *)
(***************************************************************************)
Chars == {97, 233, 8364, 128512}
CharModifiers == {{}, {"alt"}, {"alt", "shift"}}
CharOffsets == {0, 2}

InitChars ==
    \E offset \in CharOffsets, option_as_alt \in BOOLEAN :
        /\ clipboard = [Clipboard |-> <<>>, Selection |-> <<>>]
        /\ modifiers = {}
        /\ ignore_chars = FALSE
        /\ ime = [preedit |-> None]
        /\ state = [selection_range |-> None, ime |-> None,
                    alt_send_esc |-> option_as_alt]
        /\ sugarloaf = [layout |-> PaddedLayout]
        /\ context_manager =
             [contexts |-> <<[NewContext(0, {}, offset, 80, 24)
                                EXCEPT !.text = <<111, 107>>]>>,
              current_index |-> 0]
        /\ mouse = MouseDefault
        /\ last = [op |-> "new"]

NextChars ==
    \/ \E m \in CharModifiers : SetModifiers(m)
    \/ \E c \in Chars : InputCharacter(c)
    \/ \E cs \in {"Click", "DoubleClick"} : LeftClick(cs, "Left", ClickPoint)
    \/ \E p \in {None, Some(<<110>>)} : SetPreedit(p)
    \/ \E i \in 1..MaxContexts : PtyRead(i)

SpecChars == InitChars /\ [][NextChars]_vars

(***************************************************************************)
(* SpecMouse: mouse reports over pointer positions on both sides of every  *)
(* threshold of the encodings.                                             *)
(***************************************************************************)
MouseXs == {5, 50, 94, 95, 222, 223, 300, 2014, 2015}
MouseYs == {20, 190, 444, 446, 4028, 4030}
MouseOffsets == {0, 11}
MouseModes == SUBSET {"SGR_MOUSE", "UTF8_MOUSE"}
MouseModifiers == {{}, {"shift"}, {"alt"}, {"ctrl"}, {"shift", "alt", "ctrl"}}
\* The ids of the buttons, of a motion with no button held (32 + 3) and of
\* the last wheel direction (64 + 3).
Buttons == {0, 1, 2, 35, 67}
ElementStates == {"Pressed", "Released"}

\* The inputs of mouse_report are drawn here: the layout, the grid's mode and
\* display offset, the pointer position and the held modifiers.
InitMouse ==
    \E layout \in {WideLayout, PaddedLayout}, mode \in MouseModes,
       offset \in MouseOffsets, x \in MouseXs, y \in MouseYs,
       m \in MouseModifiers :
        /\ InitWith(layout, NewContext(0, mode, offset, layout.columns, layout.lines), m)
        /\ mouse = [MouseDefault EXCEPT !.x = x, !.y = y]

NextMouse ==
    \/ \E b \in Buttons, st \in ElementStates : MouseReport(b, st)
    \/ \E i \in 1..MaxContexts : PtyRead(i)

SpecMouse == InitMouse /\ [][NextMouse]_vars

(***************************************************************************)
(* Claims about mouse reporting (SpecMouse).                               *)
(***************************************************************************)
\* What the step's handler sent through the current Context's Messenger.
Emitted ==
    LET old == current(Self).messenger
        new == current(Self)'.messenger
    IN  [i \in 1..(Len(new) - Len(old)) |-> new[Len(old) + i]]

Bytes(b) == [t |-> "bytes", bytes |-> b]

\* The cell mouse_report resolves for the step's pointer position.
ResolvedPos == mouse_position(Self, current(Self).display_offset)

IsMouseReport == last'.op = "mouse_report"

SgrMode == "SGR_MOUSE" \in current(Self).mode
Utf8Mode == "UTF8_MOUSE" \in current(Self).mode

\* The report code as section 4.4 of the specification states it.
ModifierBits(m) ==
    (IF "shift" \in m THEN 4 ELSE 0) + (IF "alt" \in m THEN 8 ELSE 0)
    + (IF "ctrl" \in m THEN 16 ELSE 0)

ExpectedCode(button, st, sgr) ==
    (IF ~sgr /\ st = "Released" THEN 3 ELSE button) + ModifierBits(modifiers)

\* The bytes of ESC[<{code};{col+1};{row+1}{M|m}.
SgrText(code, col, row, st) ==
    <<27, 91, 60>> \o Dec(code) \o <<59>> \o Dec(col + 1) \o <<59>>
    \o Dec(row + 1) \o <<IF st = "Pressed" THEN 77 ELSE 109>>

\* C4: in SGR mouse mode with a non-negative resolved row, mouse_report sends
\* exactly ESC[<{code};{col+1};{row+1} followed by M on press and m on
\* release, whatever the column and row (button 0, col 5, row 10, press gives
\* ESC[<0;6;11M).
C4_SgrReportText ==
    [][(IsMouseReport /\ SgrMode /\ ResolvedPos.row >= 0) =>
        /\ Emitted = <<Bytes(SgrText(last'.button + ModifierBits(modifiers),
                                     ResolvedPos.col, ResolvedPos.row, last'.st))>>
        /\ (last'.button = 0 /\ modifiers = {} /\ ResolvedPos = Pos(10, 5)
            /\ last'.st = "Pressed")
           => Emitted = <<Bytes(<<27, 91, 60, 48, 59, 54, 59, 49, 49, 77>>)>>
        /\ (last'.button = 0 /\ modifiers = {} /\ ResolvedPos = Pos(10, 5)
            /\ last'.st = "Released")
           => Emitted = <<Bytes(<<27, 91, 60, 48, 59, 54, 59, 49, 49, 109>>)>>
      ]_vars

\* An SGR report was sent for a cell beyond both legacy caps.
C4_Witness ==
    /\ last.op = "mouse_report"
    /\ SgrMode
    /\ ResolvedPos.row >= LegacyMaxPoint
    /\ ResolvedPos.col >= Utf8MaxPoint
    /\ current(Self).messenger # <<>>
    /\ current(Self).messenger[Len(current(Self).messenger)].bytes[1] = 27

\* The encoding of one legacy coordinate.
LegacyCoordinate(c, utf8) ==
    IF utf8 /\ c >= 95
    THEN <<192 + ((33 + c) \div 64), 128 + ((33 + c) % 64)>>
    ELSE <<33 + c>>

LegacyCap(utf8) == IF utf8 THEN 2015 ELSE 223

\* C5: in legacy mouse mode, for every position below the cap the report is
\* ESC [ M, the byte 32+code, the column encoding and the row encoding: the
\* single byte 33+c, or under UTF-8 mouse mode with c >= 95 the two bytes
\* 0xC0 + (33+c)/64 and 0x80 + (33+c)%64.
C5_LegacyReportBytes ==
    [][(IsMouseReport /\ ~SgrMode /\ ResolvedPos.row >= 0
        /\ ResolvedPos.row < LegacyCap(Utf8Mode)
        /\ ResolvedPos.col < LegacyCap(Utf8Mode)) =>
        Emitted = <<Bytes(<<27, 91, 77,
                            32 + ExpectedCode(last'.button, last'.st, FALSE)>>
                          \o LegacyCoordinate(ResolvedPos.col, Utf8Mode)
                          \o LegacyCoordinate(ResolvedPos.row, Utf8Mode))>>
      ]_vars

\* A legacy report with a two-byte column and a one-byte row was sent.
C5_Witness ==
    /\ last.op = "mouse_report"
    /\ ~SgrMode /\ Utf8Mode
    /\ ResolvedPos.col >= 95 /\ ResolvedPos.row >= 0 /\ ResolvedPos.row < 95
    /\ current(Self).messenger # <<>>
    /\ Len(current(Self).messenger[Len(current(Self).messenger)].bytes) = 7

\* C6 as stated: a legacy report is sent exactly when column and row are
\* both within the cap, the cap value included.
C6_CapInclusive ==
    [][(IsMouseReport /\ ~SgrMode /\ ResolvedPos.row >= 0) =>
        ((Emitted # <<>>) <=>
            (ResolvedPos.row <= LegacyCap(Utf8Mode)
             /\ ResolvedPos.col <= LegacyCap(Utf8Mode)))
      ]_vars

\* C6 (amended): in legacy mouse mode a report whose column or row is at or
\* beyond the cap (223, or 2015 under UTF-8 mouse mode) sends no bytes at all
\* and is never clamped, and a report whose column and row are both strictly
\* below the cap is sent.
C6_CapExclusive ==
    [][(IsMouseReport /\ ~SgrMode /\ ResolvedPos.row >= 0) =>
        /\ (ResolvedPos.row >= LegacyCap(Utf8Mode)
            \/ ResolvedPos.col >= LegacyCap(Utf8Mode)) => Emitted = <<>>
        /\ (ResolvedPos.row < LegacyCap(Utf8Mode)
            /\ ResolvedPos.col < LegacyCap(Utf8Mode)) => Len(Emitted) = 1
      ]_vars

\* A legacy report at exactly the cap was handled and nothing was sent.
C6_Witness ==
    /\ last.op = "mouse_report"
    /\ ~SgrMode /\ ~Utf8Mode
    /\ ResolvedPos.col = LegacyMaxPoint /\ ResolvedPos.row >= 0
    /\ ResolvedPos.row < LegacyMaxPoint
    /\ current(Self).messenger = <<>>

\* The values of one legacy coordinate, before any narrowing to a byte,
\* stay in the range of their place.
LegacyCoordinateFits(c, utf8) ==
    IF utf8 /\ c >= 95
    THEN /\ 192 + ((33 + c) \div 64) \in 192..223
         /\ 128 + ((33 + c) % 64) \in 128..191
    ELSE 33 + c <= 255

ResolvedCell == mouse_position(Self, 0)

\* C24: for every pointer position and layout the cell mouse_report resolves
\* lies inside the grid before the display offset is applied, with
\* 0 <= column <= columns-1 and 0 <= line <= lines-1, and the returned row is
\* that line minus the display offset.
C24_CellInsideGrid ==
    [][IsMouseReport =>
        /\ ResolvedCell.col \in 0..(sugarloaf.layout.columns - 1)
        /\ ResolvedCell.row \in 0..(sugarloaf.layout.lines - 1)
        /\ ResolvedPos.row = ResolvedCell.row - current(Self).display_offset
        /\ ResolvedPos.col = ResolvedCell.col
      ]_vars

\* The number written in decimal at the head of a byte sequence, up to the
\* first byte that is not a digit.
RECURSIVE ParseDecimal(_, _)
ParseDecimal(bytes, acc) ==
    IF bytes = <<>> \/ bytes[1] < 48 \/ bytes[1] > 57
    THEN acc
    ELSE ParseDecimal(Tail(bytes), 10 * acc + (bytes[1] - 48))

\* The code field of a report: the number after ESC[< (SGR), or the fourth
\* byte less 32 (legacy).
CodeField(bytes, sgr) ==
    IF sgr THEN ParseDecimal(SubSeq(bytes, 4, Len(bytes)), 0) ELSE bytes[4] - 32

\* C7: the code field of every mouse report is button + 4 (shift) + 8 (alt)
\* + 16 (ctrl); a legacy release carries 3 in place of the button, an SGR
\* release keeps the button.
C7_ReportCode ==
    [][(IsMouseReport /\ Emitted # <<>>) =>
        CodeField(Emitted[1].bytes, SgrMode) =
            (IF ~SgrMode /\ last'.st = "Released" THEN 3 ELSE last'.button)
            + (IF "shift" \in modifiers THEN 4 ELSE 0)
            + (IF "alt" \in modifiers THEN 8 ELSE 0)
            + (IF "ctrl" \in modifiers THEN 16 ELSE 0)
      ]_vars

\* An SGR release of button 2 with shift, alt and ctrl held was reported.
C7_Witness ==
    /\ last.op = "mouse_report" /\ last.st = "Released" /\ last.button = 2
    /\ SgrMode
    /\ modifiers = {"shift", "alt", "ctrl"}
    /\ current(Self).messenger # <<>>
    /\ CodeField(current(Self).messenger[Len(current(Self).messenger)].bytes,
                 TRUE) = 30

\* C8: when the resolved row is negative, mouse_report drops the event: no
\* bytes are sent in either encoding and no state changes.
C8_NegativeRowDropped ==
    [][(IsMouseReport /\ ResolvedPos.row < 0) =>
        /\ Emitted = <<>>
        /\ UNCHANGED <<clipboard, modifiers, ignore_chars, mouse, ime, state,
                       sugarloaf, context_manager>>
      ]_vars

\* A report was handled with the pointer's line above the viewport.
C8_Witness ==
    /\ last.op = "mouse_report"
    /\ ResolvedPos.row < 0
    /\ current(Self).display_offset > 0

(***************************************************************************)
(* Claims about key-binding resolution (Spec) and about character events   *)
(* and clicks (SpecInput).                                                 *)
(***************************************************************************)
IsInputKeycode == last'.op = "input_keycode"

\* A binding matches a key event as section 4.3 of the specification states
\* it: trigger kind and value, modifiers equal, required mode bits within the
\* mode, excluded mode bits outside it.
TriggerMatches(b, virtual_keycode, scancode) ==
    \/ b.trigger.kind = "Scancode" /\ b.trigger.v = scancode
    \/ b.trigger.kind = "Keycode" /\ virtual_keycode.some
       /\ b.trigger.v = virtual_keycode.v

BindingMatches(b, virtual_keycode, scancode, M, S) ==
    /\ TriggerMatches(b, virtual_keycode, scancode)
    /\ b.mods = M
    /\ b.mode \subseteq S
    /\ b.notmode \cap S = {}

\* The indices of the matching bindings, each once, in table order.
RECURSIVE MatchingFrom(_, _, _, _, _)
MatchingFrom(i, virtual_keycode, scancode, M, S) ==
    IF i > Len(KeyBindings) THEN <<>>
    ELSE (IF BindingMatches(KeyBindings[i], virtual_keycode, scancode, M, S)
          THEN <<i>> ELSE <<>>)
         \o MatchingFrom(i + 1, virtual_keycode, scancode, M, S)

ActionOf(i) == KeyBindings[i].action.t

\* The payloads of the Esc bindings among the indices, newlines as CR.
RECURSIVE EscPayloads(_)
EscPayloads(indices) ==
    IF indices = <<>> THEN <<>>
    ELSE (IF ActionOf(Head(indices)) = "Esc"
          THEN <<Bytes(normalize_newlines(KeyBindings[Head(indices)].action.s))>>
          ELSE <<>>)
         \o EscPayloads(Tail(indices))

SendsOnlyEsc(indices) ==
    \A k \in 1..Len(indices) :
        ActionOf(indices[k]) \in {"Esc", "ReceiveChar", "None", "ViMotion",
                                 "Copy", "WindowCreateNew"}

\* C1: for every key event handled outside an IME preedit with mode snapshot
\* S and modifiers M, the bindings that fire are exactly those whose trigger
\* matches the event, whose modifiers equal M, whose required mode bits lie
\* in S and whose excluded mode bits lie outside S; each fires once, in table
\* order, and the scan goes on after the first match (the escape sequences of
\* all matching bindings are sent, in that order).
C1_BindingsFire ==
    [][(IsInputKeycode /\ ~ime.preedit.some) =>
        LET expected == MatchingFrom(1, last'.virtual_keycode, last'.scancode,
                                     modifiers, get_mode(Self))
        IN  /\ last'.fired = expected
            /\ SendsOnlyEsc(expected) => Emitted = EscPayloads(expected)
      ]_vars

\* A key event fired two bindings of the table, the first and the fourth.
C1_Witness ==
    /\ last.op = "input_keycode"
    /\ last.fired = <<1, 4>>
    /\ Len(current(Self).messenger) = 2

\* C2: after the scan, ignore_chars is true iff at least one binding fired
\* and none of the fired bindings was ReceiveChar.
C2_SuppressionFlag ==
    [][(IsInputKeycode /\ ~ime.preedit.some) =>
        (ignore_chars' <=>
            (/\ last'.fired # <<>>
             /\ \A k \in 1..Len(last'.fired) :
                    ActionOf(last'.fired[k]) # "ReceiveChar"))
      ]_vars

\* ReceiveChar fired ahead of an escape sequence and the flag is false.
C2_Witness ==
    /\ last.op = "input_keycode"
    /\ last.fired = <<5, 6>>
    /\ ~ignore_chars

IsInputCharacter == last'.op = "input_character"

ScreenUnchanged ==
    UNCHANGED <<clipboard, modifiers, ignore_chars, mouse, ime, state,
                sugarloaf, context_manager>>

\* The character went through: one payload was sent, the selection is
\* cleared and the grid is at the bottom.
CharacterHandled ==
    /\ Len(Emitted) = 1
    /\ current(Self)'.selection = None
    /\ state'.selection_range = None
    /\ current(Self)'.display_offset = 0

\* C3 as stated: a character event is suppressed when the suppression flag
\* is set, and is not suppressed otherwise.
C3_SuppressedIffFlag ==
    [][IsInputCharacter =>
        IF ignore_chars
        THEN Emitted = <<>> /\ ScreenUnchanged
        ELSE Len(Emitted) = 1
      ]_vars

\* C3 (amended): when the suppression flag is set by a key event, the
\* following character event is suppressed: it sends no bytes, does not clear
\* the selection and does not scroll the grid; a character event that arrives
\* with the flag clear is not suppressed unless an IME preedit is in
\* progress, in which case it is dropped in the same way.
C3_SuppressedIffFlagOrPreedit ==
    [][IsInputCharacter =>
        IF ignore_chars \/ ime.preedit.some
        THEN Emitted = <<>> /\ ScreenUnchanged
        ELSE CharacterHandled
      ]_vars

\* A character event was dropped on the flag alone, with a selection in
\* place and the grid scrolled back.
C3_Witness ==
    /\ last.op = "input_character"
    /\ ignore_chars
    /\ ~ime.preedit.some
    /\ current(Self).selection.some
    /\ current(Self).display_offset # 0
    /\ current(Self).messenger = <<>>

IsLeftClick == last'.op = "on_left_click"

\* C9: on_left_click stores in the grid's selection slot a selection whose
\* granularity follows the click classification: Click gives Simple, or Block
\* with Ctrl held; DoubleClick gives Semantic; TripleClick gives Lines; a
\* click classified None leaves the slot as it was.
C9_ClickGranularity ==
    [][IsLeftClick =>
        LET click == mouse'.click_state
            slot == current(Self)'.selection
        IN  /\ click = "Click" =>
                /\ slot.some
                /\ slot.v.ty = IF "ctrl" \in modifiers THEN "Block" ELSE "Simple"
            /\ click = "DoubleClick" => slot.some /\ slot.v.ty = "Semantic"
            /\ click = "TripleClick" => slot.some /\ slot.v.ty = "Lines"
            /\ click # "None" => slot.v.start.point = last'.point
            /\ click = "None" => slot = current(Self).selection
      ]_vars

\* A click with Ctrl held started a Block selection.
C9_Witness ==
    /\ last.op = "on_left_click"
    /\ mouse.click_state = "Click"
    /\ "ctrl" \in modifiers
    /\ current(Self).selection.some
    /\ current(Self).selection.v.ty = "Block"

(***************************************************************************)
(* Claims about the selection projection across tabs (SpecTabs).           *)
(***************************************************************************)
\* C10: the render state's selection projection mirrors the selection slot
\* of the current Context's grid: whenever that slot is empty the projection
\* is None, and right after clear_selection both are None.
C10_ProjectionMirrorsSlot ==
    /\ ~current(Self).selection.some => state.selection_range = None
    /\ last.op = "clear_selection" =>
          current(Self).selection = None /\ state.selection_range = None

(***************************************************************************)
(* Claims about the Context collection (SpecContexts).                     *)
(***************************************************************************)
\* The step closes the current tab: close_context itself, the guarded
\* try_close_existent_tab, or a key event that fired TabCloseCurrent only.
IsCloseStep ==
    \/ last'.op \in {"close_context", "try_close_existent_tab"}
    \/ /\ last'.op = "input_keycode"
       /\ Len(last'.fired) = 1
       /\ ActionOf(last'.fired[1]) = "TabCloseCurrent"

\* C11: close_context on a window with exactly one Context changes nothing
\* (same collection, same current Context); on a window with N > 1 Contexts
\* the length becomes N - 1 and the current index is valid afterwards.
C11_CloseContext ==
    [][IsCloseStep =>
        LET N == len(context_manager)
        IN  IF N = 1
            THEN context_manager' = context_manager
            ELSE /\ len(context_manager') = N - 1
                 /\ context_manager'.current_index \in 0..(N - 2)
      ]_vars

\* The last of several tabs was closed and its left neighbour is current.
C11_Witness ==
    /\ last.op = "close_context"
    /\ len(context_manager) = MaxContexts
    /\ context_manager.current_index = MaxContexts - 1

\* C12: after any sequence of add_context (with or without redirect),
\* switch_to_next and close_context the collection is non-empty and the
\* current index refers to an existing Context.
C12_CurrentValid ==
    /\ len(context_manager) >= 1
    /\ context_manager.current_index \in 0..(len(context_manager) - 1)

\* switch_to_next wrapped around from the last of several tabs.
C12_Witness ==
    /\ last.op = "switch_to_next"
    /\ len(context_manager) > MaxContexts
    /\ context_manager.current_index = 0

\* C13: add_context without redirect immediately followed by close_context
\* restores the prior collection length and leaves the Context that was
\* current before the add present and current.
C13_AddThenClose ==
    [][(last.op = "add_context" /\ ~last.redirect /\ last'.op = "close_context") =>
        /\ len(context_manager') = last.prior_len
        /\ current(Self)'.id = last.prior_id
      ]_vars

(***************************************************************************)
(* Claims about wheel scrolling (SpecWheel, SpecScroll).                   *)
(***************************************************************************)
IsScroll == last'.op = "scroll"

\* The wheel event is turned into arrow keys: alternate screen with
\* alternate scroll, shift not held.
ArrowKeyCase ==
    /\ {"ALT_SCREEN", "ALTERNATE_SCROLL"} \subseteq get_mode(Self)
    /\ "shift" \notin modifiers

\* C14: over a run of wheel events on the normal screen the lines scrolled
\* in total are the whole line heights contained in the cumulative delta:
\* none while the running total stays below one line height, and no line is
\* counted again by a later event.  (The run starts at the bottom of the
\* grid; the statement is read off while the scrollback has not run out.)
C14_WholeLinesOfTotal ==
    (/\ last.op = "scroll"
     /\ current(Self).display_offset < history_size(current(Self)))
    => current(Self).display_offset =
          TruncDiv(last.total_y * mouse.multiplier, sugarloaf.layout.font_size)

\* The arrow-key sequences of the whole units a wheel event crosses, given
\* the part of a unit the earlier events left over.
CrossedKeys(dx, dy) ==
    LET layout == sugarloaf.layout
        acc == mouse.accumulated_scroll
        line == layout.font_size * layout.scale_factor
        lines == Abs(TruncDiv(Rem(acc.y, line) + dy, line))
        columns == Abs(TruncDiv(Rem(acc.x, layout.width) + dx, layout.width))
    IN  arrow_keys(lines, IF dy > 0 THEN 65 ELSE 66)
            \o arrow_keys(columns, IF dx > 0 THEN 68 ELSE 67)

\* The lines of scrollback a wheel event crosses, given the part of a line
\* the earlier events left over.
CrossedLines(dy) ==
    LET line == sugarloaf.layout.font_size
    IN  TruncDiv(Rem(mouse.accumulated_scroll.y, line) + dy * mouse.multiplier,
                 line)

\* C15: a wheel event is turned into arrow-key escape sequences (ESC O A/B
\* for lines, ESC O D/C for columns, one per unit crossed) and leaves the
\* display offset alone exactly when the mode has alternate screen and
\* alternate scroll and shift is not held; in every other case it moves the
\* scrollback by the lines crossed and sends no bytes.
C15_WheelDispatch ==
    [][IsScroll =>
        LET keys == CrossedKeys(last'.dx, last'.dy)
            before == current(Self)
            after == current(Self)'
        IN  IF ArrowKeyCase
            THEN /\ after.display_offset = before.display_offset
                 /\ Emitted = IF keys = <<>> THEN <<>> ELSE <<Bytes(keys)>>
            ELSE /\ Emitted = <<>>
                 /\ after.display_offset =
                        scroll_display(before, CrossedLines(last'.dy)).display_offset
      ]_vars

\* C20: wheel accumulators are kept per Context: the first wheel event a
\* Context handles, whatever the other Contexts of the window handled
\* before, scrolls by the whole units of its own delta only.
C20_PerContextAccumulator ==
    [][(IsScroll /\ ~current(Self).wheeled) =>
        LET own == current(scroll(reset_mouse(Self), last'.dx, last'.dy))
        IN  /\ current(Self)'.display_offset = own.display_offset
            /\ current(Self)'.messenger = own.messenger
      ]_vars

(***************************************************************************)
(* Claims about the terminal lock (SpecLocks).                             *)
(***************************************************************************)
\* The Contexts whose terminal lock the Screen's flow holds.
ScreenHolds(cm) == {i \in 1..Len(cm.contexts) : cm.contexts[i].lock = "screen"}

\* The step takes the handler under way one statement on.
FlowStepped == ~FlowIdle /\ last' # last

ResizeMessage(a) ==
    [t |-> "resize", width |-> a.width, height |-> a.height,
     columns |-> as_u16(a.columns), lines |-> as_u16(a.lines)]

\* C16: on a resize broadcast every Context of the collection, not only the
\* current one, gets its grid resized to the new columns and lines, and a
\* Context's resize notification goes through its Messenger only once its
\* own grid has the new size and its lock is released.
C16_ResizeThenNotify ==
    [][(FlowStepped /\ last.op = "resize_all_contexts") =>
        LET a == last.args
            i == FlowTarget
            before == context_manager.contexts
            after == context_manager'.contexts
        IN  /\ FlowStep.f = "send_resize" =>
                /\ before[i].lock # "screen"
                /\ before[i].columns = a.columns /\ before[i].lines = a.lines
                /\ after[i].messenger = Append(before[i].messenger, ResizeMessage(a))
            /\ last'.pc = 0 =>
                \A j \in 1..Len(after) :
                    /\ after[j].columns = a.columns /\ after[j].lines = a.lines
                    /\ after[j].messenger # <<>>
                    /\ after[j].messenger[Len(after[j].messenger)] = ResizeMessage(a)
      ]_vars

\* A broadcast over several Contexts is through, the first one current: all
\* grids have the new size, all were told, and the parser of the first one
\* holds its lock again.
C16_Witness ==
    /\ last.op = "resize_all_contexts"
    /\ last.pc = 0
    /\ len(context_manager) > 1
    /\ context_manager.current_index = 0
    /\ \A j \in 1..len(context_manager) :
          /\ context_manager.contexts[j].columns = 100
          /\ context_manager.contexts[j].messenger # <<>>
    /\ context_manager.contexts[1].lock = "parser"

SelectedText == selection_to_string(current(Self))
HasSelectedText == SelectedText.some /\ SelectedText.v # <<>>

\* The click put its own selection, anchored at the clicked cell, in the slot.
SelectionReplaced ==
    /\ current(Self)'.selection.some
    /\ current(Self)'.selection.v.start.point = last'.point
    /\ current(Self)'.selection.v.ty =
          click_selection_type(Self, mouse'.click_state)

\* C18 as stated: a left click of any classification (Click, DoubleClick or
\* TripleClick) made while a non-empty selection exists leaves that
\* selection's text in the primary-selection clipboard slot and its own
\* selection in the grid.
C18_SnapshotOnAnyClick ==
    [][(IsLeftClick /\ mouse'.click_state # "None" /\ HasSelectedText) =>
        /\ clipboard'["Selection"] = SelectedText.v
        /\ SelectionReplaced
      ]_vars

\* C18 (amended): a DoubleClick or TripleClick made while a non-empty
\* selection exists first snapshots that selection's text into the
\* primary-selection clipboard slot and then replaces the selection; a plain
\* Click clears the existing selection before the new one is started, so it
\* snapshots nothing and leaves the clipboard as it was.
C18_SnapshotOnMultiClick ==
    [][(IsLeftClick /\ mouse'.click_state # "None" /\ HasSelectedText) =>
        /\ SelectionReplaced
        /\ IF mouse'.click_state = "Click"
           THEN clipboard' = clipboard
           ELSE clipboard'["Selection"] = SelectedText.v
      ]_vars

\* A triple click replaced a selection and its text is in the
\* primary-selection slot.
C18_Witness ==
    /\ last.op = "on_left_click"
    /\ mouse.click_state = "TripleClick"
    /\ clipboard["Selection"] = <<111, 107>>
    /\ current(Self).selection.some
    /\ current(Self).selection.v.ty = "Lines"

(***************************************************************************)
(* Claims about character input (SpecChars).                               *)
(***************************************************************************)
\* UTF-8 of the characters of SpecChars: a, e acute, the euro sign and an
\* emoji, of one, two, three and four bytes.
Utf8Of ==
    (97 :> <<97>>) @@ (233 :> <<195, 169>>) @@ (8364 :> <<226, 130, 172>>)
        @@ (128512 :> <<240, 159, 152, 128>>)

\* C19: a character event that is not suppressed (no preedit, flag false)
\* clears the selection of the current Context (slot and projection None),
\* leaves the display offset at 0, and sends exactly one payload: the
\* character's UTF-8 bytes, with ESC in front only when alt is held,
\* alt-sends-escape is on and the encoding is a single byte.
C19_CharacterInput ==
    [][(IsInputCharacter /\ ~ime.preedit.some /\ ~ignore_chars) =>
        LET utf8 == Utf8Of[last'.character]
            prefix == IF "alt" \in modifiers /\ state.alt_send_esc
                         /\ Len(utf8) = 1
                      THEN <<ESC>> ELSE <<>>
        IN  /\ current(Self)'.selection = None
            /\ state'.selection_range = None
            /\ current(Self)'.display_offset = 0
            /\ Emitted = <<Bytes(prefix \o utf8)>>
      ]_vars

\* With alt held, a two-byte character went out without ESC, the selection
\* is gone and the grid is back at the bottom.
C19_Witness ==
    /\ last.op = "input_character"
    /\ last.character = 233
    /\ "alt" \in modifiers
    /\ state.alt_send_esc
    /\ current(Self).messenger = <<Bytes(<<195, 169>>)>>
    /\ current(Self).selection = None

(***************************************************************************)
(* SpecPaste: pastes of short texts over ESC, ETX, CR, LF and a letter,    *)
(* and of texts that carry the end marker of a bracketed paste.            *)
(***************************************************************************)
MaxPasteLen == 3
PasteAlphabet == {27, 3, 13, 10, 97}
PasteStart == <<27, 91, 50, 48, 48, 126>>
PasteEnd == <<27, 91, 50, 48, 49, 126>>
PasteTexts ==
    UNION {[1..n -> PasteAlphabet] : n \in 0..MaxPasteLen}
    \union {PasteEnd, <<97>> \o PasteEnd \o <<98>>,
            <<27, 3>> \o Tail(PasteEnd), <<97, 13, 10, 98, 10, 13>>}
PasteModes == {{}, {"BRACKETED_PASTE"}}

\* A paste is taken once the writer has drained the channels.
Paste(text, bracketed) ==
    /\ pending(context_manager.contexts) = 0
    /\ Store(paste(Self, text, bracketed))
    /\ last' = [op |-> "paste", text |-> text, bracketed |-> bracketed]

InitPaste ==
    \E mode \in PasteModes :
        /\ InitWith(PaddedLayout, NewContext(0, mode, 0, 80, 24), {})
        /\ mouse = MouseDefault

NextPaste ==
    \/ \E text \in PasteTexts, bracketed \in BOOLEAN : Paste(text, bracketed)
    \/ \E i \in 1..MaxContexts : PtyRead(i)

SpecPaste == InitPaste /\ [][NextPaste]_vars

(***************************************************************************)
(* SpecSelect: clicks, drags and copies on one Context, in vi mode or not, *)
(* whose grid holds output or is blank.                                    *)
(***************************************************************************)
SelectModes == {{}, {"VI"}}
SelectTexts == {<<>>, <<111, 107>>, <<104, 105>>}
SelectModifiers == {{}, {"ctrl"}}
SelectSides == {"Left", "Right"}
SelectClickPoints == {Pos(1, 2), Pos(5, 7)}
\* Drag targets on the grid, on its last line and below it.
SelectDragPoints == {Pos(0, 0), Pos(1, 2), Pos(23, 5), Pos(30, 3)}
ClipboardTypes == {"Clipboard", "Selection"}

CopySelection(ty) ==
    /\ Store(copy_selection(Self, ty))
    /\ last' = [op |-> "copy_selection", ty |-> ty]

\* The parser thread writes the pseudo-terminal's output into the grid.
GridOutput(text) ==
    /\ Store(with_current(Self, [current(Self) EXCEPT !.text = text]))
    /\ last' = [op |-> "grid_output"]

InitSelect ==
    \E mode \in SelectModes, text \in SelectTexts :
        /\ InitWith(PaddedLayout,
                    [NewContext(0, mode, 0, 80, 24) EXCEPT !.text = text], {})
        /\ mouse = MouseDefault

NextSelect ==
    \/ \E m \in SelectModifiers : SetModifiers(m)
    \/ \E cs \in ClickStates, p \in SelectClickPoints : LeftClick(cs, "Left", p)
    \/ \E p \in SelectDragPoints, side \in SelectSides : UpdateSelection(p, side)
    \/ ClearSelection
    \/ \E ty \in ClipboardTypes : CopySelection(ty)
    \/ \E text \in SelectTexts : GridOutput(text)

SpecSelect == InitSelect /\ [][NextSelect]_vars

(***************************************************************************)
(* Claims about update_selection and copy_selection (SpecSelect).          *)
(***************************************************************************)
IsUpdateSelection == last'.op = "update_selection"

\* The target of the step's update_selection, its row held to the last line
\* of the grid.
ClampedTarget ==
    [last'.pos EXCEPT !.row = Min(last'.pos.row, current(Self).lines - 1)]

\* Both end cells of a selection are taken whole.
FullCells(sel) ==
    IF PointLeq(sel.start.point, sel.end.point)
    THEN sel.start.side = "Left" /\ sel.end.side = "Right"
    ELSE sel.start.side = "Right" /\ sel.end.side = "Left"

\* C21: update_selection with an active selection clamps the target row to
\* the bottommost line, extends the selection to the clamped target, keeps it
\* in the grid slot with its granularity and anchor, and recomputes the
\* projection from it; in vi mode, and only then, the vi cursor moves to the
\* clamped target and both end cells are taken whole.  With no selection the
\* grid slot, the projection and the vi cursor stay as they were.
C21_UpdateSelection ==
    [][IsUpdateSelection =>
        LET old == current(Self)
            new == current(Self)'
        IN  IF old.selection.some
            THEN /\ new.selection.some
                 /\ new.selection.v.ty = old.selection.v.ty
                 /\ new.selection.v.start.point = old.selection.v.start.point
                 /\ new.selection.v.end.point = ClampedTarget
                 /\ state'.selection_range = selection_to_range(new.selection.v)
                 /\ IF "VI" \in old.mode
                    THEN /\ new.vi_mode_cursor = ClampedTarget
                         /\ FullCells(new.selection.v)
                    ELSE /\ new.vi_mode_cursor = old.vi_mode_cursor
                         /\ new.selection.v.start.side = old.selection.v.start.side
                         /\ new.selection.v.end.side = last'.side
            ELSE /\ new.selection = None
                 /\ state' = state
                 /\ new.vi_mode_cursor = old.vi_mode_cursor
      ]_vars

\* In vi mode a drag below the grid extended a selection to the last line:
\* the vi cursor is there, the end cell is taken whole although the drag came
\* in on its left side, and the projection ends there.
C21_Witness ==
    /\ last.op = "update_selection"
    /\ last.pos = Pos(30, 3)
    /\ last.side = "Left"
    /\ "VI" \in current(Self).mode
    /\ current(Self).selection.some
    /\ current(Self).selection.v.end = [point |-> Pos(23, 3), side |-> "Right"]
    /\ current(Self).vi_mode_cursor = Pos(23, 3)
    /\ state.selection_range.some
    /\ state.selection_range.v.end = Pos(23, 3)

IsCopySelection == last'.op = "copy_selection"

\* C25: copy_selection writes no clipboard slot when the current Context has
\* no selection or an empty selection text; with a non-empty text a copy to
\* Clipboard writes the Clipboard slot only and a copy to the primary
\* selection writes the same text to the primary-selection slot and to the
\* Clipboard slot; the grid's selection and the projection are not touched.
C25_CopyFrame ==
    [][IsCopySelection =>
        /\ context_manager' = context_manager
        /\ state' = state
        /\ IF ~HasSelectedText
           THEN clipboard' = clipboard
           ELSE IF last'.ty = "Clipboard"
           THEN clipboard' = [clipboard EXCEPT !["Clipboard"] = SelectedText.v]
           ELSE clipboard' = [Clipboard |-> SelectedText.v,
                              Selection |-> SelectedText.v]
      ]_vars

\* A copy to Clipboard wrote the selected text there and left an older,
\* different text in the primary-selection slot.
C25_Witness ==
    /\ last.op = "copy_selection"
    /\ last.ty = "Clipboard"
    /\ current(Self).selection.some
    /\ clipboard["Clipboard"] = <<104, 105>>
    /\ clipboard["Selection"] = <<111, 107>>

(***************************************************************************)
(* Claims about paste (SpecPaste).                                         *)
(***************************************************************************)
IsPaste == last'.op = "paste"

\* The text without its ESC and ETX bytes.
RECURSIVE WithoutEscEtx(_)
WithoutEscEtx(text) ==
    IF text = <<>> THEN <<>>
    ELSE IF Head(text) \in {27, 3} THEN WithoutEscEtx(Tail(text))
    ELSE <<Head(text)>> \o WithoutEscEtx(Tail(text))

\* The text with every CR LF and every LF turned into CR.
RECURSIVE CrForNewlines(_)
CrForNewlines(text) ==
    IF text = <<>> THEN <<>>
    ELSE IF Len(text) >= 2 /\ text[1] = 13 /\ text[2] = 10
    THEN <<13>> \o CrForNewlines(Tail(Tail(text)))
    ELSE IF text[1] = 10 THEN <<13>> \o CrForNewlines(Tail(text))
    ELSE <<text[1]>> \o CrForNewlines(Tail(text))

\* part occurs in bytes as a run of consecutive bytes.
ContainsBytes(bytes, part) ==
    \E i \in 0..(Len(bytes) - Len(part)) :
        \A j \in 1..Len(part) : bytes[i + j] = part[j]

\* C22: a paste with bracketed requested and BRACKETED_PASTE set sends, in
\* this order, ESC[200~, the text without its ESC and ETX bytes, and ESC[201~,
\* and the bytes between the markers never contain ESC[201~; every other
\* paste sends the text once, unframed, with CR LF and LF replaced by CR.
C22_PasteFraming ==
    [][IsPaste =>
        IF last'.bracketed /\ "BRACKETED_PASTE" \in current(Self).mode
        THEN /\ Emitted = <<Bytes(PasteStart),
                            Bytes(WithoutEscEtx(last'.text)),
                            Bytes(PasteEnd)>>
             /\ ~ContainsBytes(Emitted[2].bytes, PasteEnd)
        ELSE Emitted = <<Bytes(CrForNewlines(last'.text))>>
      ]_vars

\* A text carrying the end marker was pasted bracketed: what lies between
\* the markers has lost the ESC.
C22_Witness ==
    /\ last.op = "paste"
    /\ last.bracketed
    /\ ContainsBytes(last.text, PasteEnd)
    /\ current(Self).messenger =
         <<Bytes(PasteStart), Bytes(<<97, 91, 50, 48, 49, 126, 98>>),
           Bytes(PasteEnd)>>

====
